---------------------------- MODULE Spec2Model ----------------------------
(***************************************************************************)
(* Model of src/tty/windows.rs of rustyline: the raw-mode lifecycle        *)
(* (Console::enable_raw_mode, ConsoleMode::disable_raw_mode), the external *)
(* printer (ExternalPrinter::print), the asynchronous pipe (sync_channel(1)*)
(* plus a manual-reset event) and the multiplexing reader                  *)
(* (ConsoleRawReader::select).                                             *)
(*                                                                         *)
(* Console mode words (DWORD bit masks) are modelled as the set of the     *)
(* flag names whose bit is set: `a | b` is union, `a & !b` is set          *)
(* difference, `a & b != 0` is a non-empty intersection.                   *)
(***************************************************************************)
EXTENDS Integers, Sequences, FiniteSets, TLC

(***************************************************************************)
(* Bounds of the model.                                                    *)
(***************************************************************************)
\* enable_raw_mode calls in one run (each yields at most one token)
MaxEnables == 2
\* print calls in one run, over all external printers
MaxMsgs == 2
\* key records the console host delivers in one run
MaxKeys == 1

(***************************************************************************)
(* Console host: mode flags, escape sequences.                             *)
(***************************************************************************)
\* wincon::ENABLE_* input flags the code names, plus ENABLE_MOUSE_INPUT as a
\* flag the code never touches
InputFlags ==
    {"PROCESSED_INPUT", "LINE_INPUT", "ECHO_INPUT", "WINDOW_INPUT",
     "MOUSE_INPUT", "INSERT_MODE", "QUICK_EDIT_MODE", "EXTENDED_FLAGS",
     "VIRTUAL_TERMINAL_INPUT"}

OutputFlags ==
    {"PROCESSED_OUTPUT", "WRAP_AT_EOL_OUTPUT", "VIRTUAL_TERMINAL_PROCESSING"}

\* input modes a console can be in when the program starts: the cooked
\* default, cooked without echo, a mode already raw, and the empty mode
InitialInputModes ==
    { {"PROCESSED_INPUT", "LINE_INPUT", "ECHO_INPUT", "MOUSE_INPUT",
       "INSERT_MODE", "QUICK_EDIT_MODE", "EXTENDED_FLAGS"},
      {"PROCESSED_INPUT", "LINE_INPUT", "MOUSE_INPUT"},
      {"WINDOW_INPUT", "INSERT_MODE", "QUICK_EDIT_MODE", "EXTENDED_FLAGS",
       "VIRTUAL_TERMINAL_INPUT"},
      {} }

InitialOutputModes ==
    { {"PROCESSED_OUTPUT"} \cup s :
        s \in SUBSET {"WRAP_AT_EOL_OUTPUT", "VIRTUAL_TERMINAL_PROCESSING"} }

ColorModes == {"Enabled", "Forced", "Disabled"}

BRACKETED_PASTE_ON == <<27, 91, 63, 50, 48, 48, 52, 104>>
BRACKETED_PASTE_OFF == <<27, 91, 63, 50, 48, 48, 52, 108>>

\* Option<DWORD>
None == [some |-> FALSE, val |-> {}]
Some(m) == [some |-> TRUE, val |-> m]

VARIABLES
    \* ---- the console host
    conin_mode,      \* input mode flags of the console
    conout_mode,     \* output mode flags of the console
    con_paste,       \* the terminal has bracketed paste switched on
    con_text,        \* UTF-16 units the terminal showed as text for the
                     \* last write_all call
    con_keys,        \* key records pending in the console input queue
    \* ---- Console
    term,            \* the fields of the Console struct
    raw_mode,        \* Arc<AtomicBool> shared by Console, tokens, printers
    \* ---- ConsoleMode tokens
    tokens,          \* the live tokens (produced, not yet released)
    \* ---- AsyncPipe, ExternalPrinter, ConsoleRawReader
    npipes,          \* pipes created so far; a pipe is named by its number
    chan,            \* chan[i]: buffer of the sync_channel of pipe i
    event,           \* event[i]: the manual-reset event of pipe i is signalled
    printers,        \* printers[p]: an ExternalPrinter and its print call
    reader,          \* the ConsoleRawReader and its wait_for_input call
    \* ---- history
    hist,            \* counters over the run: calls made and, per pipe,
                     \* the completed sends less the SetEvent calls
    delivered,       \* delivered[p]: the messages of printer p returned as
                     \* Event::ExternalPrint, in order
    last,            \* the last call that returned at once: what it saw
                     \* and what it returned
    \* ---- environment
    faulty,          \* the calls the host may fail
    \* ---- key input
    con_input,       \* the records pending in the console input queue
    rd,              \* the reader's call of wait_for_input / next_key
    keylog,          \* the records that arrived and what the calls returned
    dec,             \* an EscapeCodeBuilder and its last on_key call
    pasted,          \* a call of escape::read_pasted_text
    \* ---- ConsoleRenderer
    wa,              \* a call of write_all and what the console accepted
    paint,           \* a string laid out by wrap_at_eol / calculate_position
    refresh,         \* a call of refresh_line / clear_rows and the cursor
    \* ---- threads
    threads          \* threads[t]: the operation thread t is in and the
                     \* memory accesses it has yet to make

host_vars == <<conin_mode, conout_mode, con_paste, con_text, con_keys>>
pipe_vars == <<npipes, chan, event, printers, reader, delivered>>
key_vars == <<con_input, rd, keylog, dec, pasted>>
render_vars == <<wa, paint, refresh>>
thread_vars == <<threads>>
vars == <<conin_mode, conout_mode, con_paste, con_text, con_keys, term,
          raw_mode, tokens, npipes, chan, event, printers, reader, hist,
          delivered, last, faulty, con_input, rd, keylog, dec, pasted,
          wa, paint, refresh, threads>>

(***************************************************************************)
(* write_all on the console output handle.  `k` is the number of units the *)
(* console accepted before a WriteConsoleW call failed or accepted zero    *)
(* units; k = Len(data) is the successful write.  A terminal in            *)
(* VIRTUAL_TERMINAL_PROCESSING mode consumes a complete bracketed-paste    *)
(* sequence and switches the mode; everything else is shown as text.       *)
(***************************************************************************)
Host == [conin_mode : SUBSET InputFlags, conout_mode : SUBSET OutputFlags,
         paste : BOOLEAN, text : Seq(Nat)]

TheHost ==
    [conin_mode |-> conin_mode, conout_mode |-> conout_mode,
     paste |-> con_paste, text |-> con_text]

console_write(host, data, k) ==
    IF "VIRTUAL_TERMINAL_PROCESSING" \in host.conout_mode
          /\ data \in {BRACKETED_PASTE_ON, BRACKETED_PASTE_OFF}
    THEN IF k = Len(data)
         THEN [host EXCEPT !.paste = (data = BRACKETED_PASTE_ON),
                           !.text = <<>>]
         ELSE [host EXCEPT !.text = <<>>]
    ELSE [host EXCEPT !.text = SubSeq(data, 1, k)]


(***************************************************************************)
(* Failure of host calls.  `faulty` is the set of calls the host may fail: *)
(* a fault names the calls of one handler run that fail and, for a failing *)
(* write_all, the number of units accepted before the failure.             *)
(***************************************************************************)
NoFault == [calls |-> {}, k |-> 0]

\* units a failing write_all got accepted before it failed: none, or all
\* but the last
Accepted(data) == {0, Len(data) - 1}

\* a handler returns at the first failing call it checks (`hard`); the
\* calls whose failure it only records (`soft`) fail independently
Faults(hard, soft, data) ==
    {NoFault} \cup
    { [calls |-> h \cup s, k |-> k] :
        h \in {{}} \cup {{c} : c \in hard \cap faulty},
        s \in SUBSET (soft \cap faulty),
        k \in Accepted(data) }

(***************************************************************************)
(* Console::enable_raw_mode                                                *)
(***************************************************************************)
\* the calls whose failure ends enable_raw_mode (`?` or assert_ne!)
EnableCalls ==
    {"GetConsoleMode(conin)", "GetConsoleMode(conout)",
     "SetConsoleMode(conout,wrap)", "SetConsoleMode(conout,vt_off)",
     "write_all(BRACKETED_PASTE_ON)", "SetConsoleMode(conin,raw)"}

\* line 808: the failure of this call is recorded in ansi_colors_supported
EnableSoftCalls == {"SetConsoleMode(conout,vt_on)"}

\* lines 771-779: the raw input mask computed from the original input mode
raw_input_mask(original_conin_mode) ==
    (original_conin_mode \ {"LINE_INPUT", "ECHO_INPUT", "PROCESSED_INPUT"})
        \cup {"EXTENDED_FLAGS", "INSERT_MODE", "QUICK_EDIT_MODE", "WINDOW_INPUT"}

\* line 811: bracketed paste is switched on when the console takes VT
\* sequences and the Console was built with enable_bracketed_paste
turns_paste_on_unrequested(self) == self.ansi_colors_supported

turns_paste_on(self) ==
    self.ansi_colors_supported /\ self.enable_bracketed_paste

\* lines 782-816, the `if self.conout_isatty` block.  The result carries the
\* outcome ("ok", "err" for a `?` return, "panic" for a failed assert_ne!),
\* the Console and the host as the block leaves them, the captured output
\* mode and whether ENABLE_VIRTUAL_TERMINAL_INPUT joins the raw mask.
conout_setup(self, host, f) ==
    IF "GetConsoleMode(conout)" \in f.calls
    THEN [res |-> "err", self |-> self, host |-> host,
          original |-> None, vti |-> FALSE,
          calls |-> <<"GetConsoleMode(conout)">>]
    ELSE
    LET original_conout_mode == host.conout_mode
        wrap == "WRAP_AT_EOL_OUTPUT" \notin original_conout_mode
        mode1 == original_conout_mode \cup {"WRAP_AT_EOL_OUTPUT"}
        host1 == IF wrap THEN [host EXCEPT !.conout_mode = mode1] ELSE host
        ansi1 == "VIRTUAL_TERMINAL_PROCESSING" \in mode1
        disabled == self.color_mode = "Disabled"
        \* lines 795-810
        mode2 == IF ansi1 /\ disabled
                 THEN mode1 \ {"VIRTUAL_TERMINAL_PROCESSING"}
                 ELSE IF ~ansi1 /\ ~disabled
                      THEN mode1 \cup {"VIRTUAL_TERMINAL_PROCESSING"}
                      ELSE mode1
        vt_on_ok == "SetConsoleMode(conout,vt_on)" \notin f.calls
        host2 == IF ansi1 /\ disabled
                 THEN [host1 EXCEPT !.conout_mode = mode2]
                 ELSE IF ~ansi1 /\ ~disabled /\ vt_on_ok
                      THEN [host1 EXCEPT !.conout_mode = mode2]
                      ELSE host1
        ansi2 == IF ~ansi1 /\ ~disabled THEN vt_on_ok ELSE ansi1
        self2 == [self EXCEPT !.ansi_colors_supported = ansi2]
        paste == turns_paste_on(self2)
        write_ok == "write_all(BRACKETED_PASTE_ON)" \notin f.calls
        host3 == IF paste
                 THEN console_write(host2, BRACKETED_PASTE_ON,
                         IF write_ok THEN Len(BRACKETED_PASTE_ON) ELSE f.k)
                 ELSE host2
        \* the console calls made, in order
        calls1 == <<"GetConsoleMode(conout)">> \o
                  (IF wrap THEN <<"SetConsoleMode(conout,wrap)">> ELSE <<>>)
        calls2 == calls1 \o
                  (IF ansi1 /\ disabled
                   THEN <<"SetConsoleMode(conout,vt_off)">>
                   ELSE IF ~ansi1 /\ ~disabled
                        THEN <<"SetConsoleMode(conout,vt_on)">>
                        ELSE <<>>)
        calls3 == calls2 \o
                  (IF paste THEN <<"write_all(BRACKETED_PASTE_ON)">>
                   ELSE <<>>)
    IN  IF wrap /\ "SetConsoleMode(conout,wrap)" \in f.calls
        THEN [res |-> "panic", self |-> self, host |-> host,
              original |-> None, vti |-> FALSE, calls |-> calls1]
        ELSE IF ansi1 /\ disabled /\ "SetConsoleMode(conout,vt_off)" \in f.calls
        THEN [res |-> "panic",
              self |-> [self EXCEPT !.ansi_colors_supported = ansi1],
              host |-> host1, original |-> None, vti |-> FALSE,
              calls |-> calls2]
        ELSE IF paste /\ ~write_ok
        THEN [res |-> "err", self |-> self2, host |-> host3,
              original |-> None, vti |-> FALSE, calls |-> calls3]
        ELSE [res |-> "ok", self |-> self2, host |-> host3,
              original |-> Some(original_conout_mode), vti |-> paste,
              calls |-> calls3]

\* lines 829-838: the token handed to the caller
ConsoleMode(original_conin_mode, original_conout_mode) ==
    [original_conin_mode |-> original_conin_mode,
     original_conout_mode |-> original_conout_mode]

NoToken == ConsoleMode({}, None)

\* lines 821-826: when no ExternalPrinter (and no token) shares the flag the
\* Console lets go of its pipe
drop_unused_pipe_writer_only(self, strong_count) ==
    IF strong_count = 1
    THEN [self EXCEPT !.pipe_writer = 0]
    ELSE self

drop_unused_pipe_unconditional(self, strong_count) ==
    [self EXCEPT !.pipe_writer = 0, !.pipe_reader = 0]

drop_unused_pipe(self, strong_count) ==
    IF strong_count = 1
    THEN [self EXCEPT !.pipe_writer = 0, !.pipe_reader = 0]
    ELSE self

\* lines 762-839.  `raw` is the value of the shared flag, `strong_count` is
\* Arc::strong_count(&self.raw_mode).
enable_raw_mode(self, host, raw, strong_count, f) ==
    IF ~self.conin_isatty
    THEN [res |-> "err", self |-> self, host |-> host, raw |-> raw,
          token |-> NoToken, calls |-> <<>>]
    ELSE IF "GetConsoleMode(conin)" \in f.calls
    THEN [res |-> "err", self |-> self, host |-> host, raw |-> raw,
          token |-> NoToken, calls |-> <<"GetConsoleMode(conin)">>]
    ELSE
    LET original_conin_mode == host.conin_mode
        out == IF self.conout_isatty
               THEN conout_setup(self, host, f)
               ELSE [res |-> "ok", self |-> self, host |-> host,
                     original |-> None, vti |-> FALSE, calls |-> <<>>]
        raw_mask == raw_input_mask(original_conin_mode) \cup
                      (IF out.vti THEN {"VIRTUAL_TERMINAL_INPUT"} ELSE {})
        self3 == drop_unused_pipe(out.self, strong_count)
        calls == <<"GetConsoleMode(conin)">> \o out.calls
    IN  IF out.res # "ok"
        THEN [res |-> out.res, self |-> out.self, host |-> out.host,
              raw |-> raw, token |-> NoToken, calls |-> calls]
        ELSE IF "SetConsoleMode(conin,raw)" \in f.calls
        THEN [res |-> "err", self |-> self3, host |-> out.host,
              raw |-> TRUE, token |-> NoToken,
              calls |-> Append(calls, "SetConsoleMode(conin,raw)")]
        ELSE [res |-> "ok", self |-> self3,
              host |-> [out.host EXCEPT !.conin_mode = raw_mask],
              raw |-> TRUE,
              token |-> ConsoleMode(original_conin_mode, out.original),
              calls |-> Append(calls, "SetConsoleMode(conin,raw)")]

(***************************************************************************)
(* ConsoleMode::disable_raw_mode, lines 93-102.  `calls` lists the console *)
(* calls the run made, in order.                                           *)
(***************************************************************************)
DisableCalls ==
    {"SetConsoleMode(conin)", "write_all(BRACKETED_PASTE_OFF)",
     "SetConsoleMode(conout)"}

\* line 94: SetConsoleMode(self.conin, self.original_conin_mode)
restore_conin_skipped(self, host) == host

restore_conin(self, host) ==
    [host EXCEPT !.conin_mode = self.original_conin_mode]

\* line 98: SetConsoleMode(self.conout, original_stdstream_mode)
restore_conout(self, host) ==
    [host EXCEPT !.conout_mode = self.original_conout_mode.val]

disable_raw_mode(self, host, raw, f) ==
    IF "SetConsoleMode(conin)" \in f.calls
    THEN [res |-> "err", host |-> host, raw |-> raw,
          calls |-> <<"SetConsoleMode(conin)">>]
    ELSE
    LET host1 == restore_conin(self, host)
        write_ok == "write_all(BRACKETED_PASTE_OFF)" \notin f.calls
        host2 == console_write(host1, BRACKETED_PASTE_OFF,
                    IF write_ok THEN Len(BRACKETED_PASTE_OFF) ELSE f.k)
        host3 == restore_conout(self, host2)
    IN  IF ~self.original_conout_mode.some
        THEN [res |-> "ok", host |-> host1, raw |-> FALSE,
              calls |-> <<"SetConsoleMode(conin)">>]
        ELSE IF ~write_ok
        THEN [res |-> "err", host |-> host2, raw |-> raw,
              calls |-> <<"SetConsoleMode(conin)",
                          "write_all(BRACKETED_PASTE_OFF)">>]
        ELSE IF "SetConsoleMode(conout)" \in f.calls
        THEN [res |-> "err", host |-> host2, raw |-> raw,
              calls |-> <<"SetConsoleMode(conin)",
                          "write_all(BRACKETED_PASTE_OFF)",
                          "SetConsoleMode(conout)">>]
        ELSE [res |-> "ok", host |-> host3, raw |-> FALSE,
              calls |-> <<"SetConsoleMode(conin)",
                          "write_all(BRACKETED_PASTE_OFF)",
                          "SetConsoleMode(conout)">>]

(***************************************************************************)
(* The program's objects.                                                  *)
(***************************************************************************)
Printers == {1, 2}

\* Console::new, lines 728-741
Console(conin_isatty, conout_isatty, color_mode, enable_bracketed_paste) ==
    [conin_isatty |-> conin_isatty, conout_isatty |-> conout_isatty,
     color_mode |-> color_mode, ansi_colors_supported |-> FALSE,
     enable_bracketed_paste |-> enable_bracketed_paste,
     pipe_reader |-> 0, pipe_writer |-> 0, alive |-> TRUE]

\* a message: the string handed to print, tagged with the printer that sent
\* it and its number among the strings that printer was handed in raw mode
NoMsg == [from |-> 0, seq |-> 0, text |-> <<>>]

\* ExternalPrinter, lines 909-914 (`sender` and `event` name the pipe they
\* belong to), with the position of its print call, the message that call
\* carries and the strings print was handed in raw mode, in call order.
\* `made` tells a dropped printer from one not created yet.
NoPrinter ==
    [alive |-> FALSE, made |-> FALSE, sender |-> 0, event |-> 0,
     pc |-> "idle", msg |-> NoMsg, sent |-> <<>>]

\* ConsoleRawReader, lines 106-111, with the position of its
\* wait_for_input call and the steps the last pipe wake-up has run
NoReader ==
    [alive |-> FALSE, pipe_reader |-> 0, pc |-> "idle", steps |-> <<>>]

\* Arc::strong_count(&self.raw_mode): the Console, every token and every
\* ExternalPrinter hold one reference
strong_count ==
    1 + Len(tokens) + Cardinality({p \in Printers : printers[p].alive})

\* a failed assert_ne! unwinds the thread that owns the Console, and the
\* run ends with it
Panicked == last.res = "panic"

\* the console modes, as GetConsoleMode reports them
TheModes == [conin_mode |-> conin_mode, conout_mode |-> conout_mode]

NoCall ==
    [op |-> "none", arg |-> <<>>, res |-> "ok", before |-> TheModes,
     token |-> NoToken, at_enable |-> TheModes, ntokens |-> 0,
     calls |-> <<>>]

(***************************************************************************)
(* Key events (KeyEvent(KeyCode, Modifiers)) and the escape decoder's      *)
(* state.  A character is its scalar value; Modifiers is the set of the    *)
(* names of its bits.                                                      *)
(***************************************************************************)
\* KeyCode: K::Char(c), K::F(n) and the unit variants
KChar(c) == [code |-> "Char", arg |-> c]
KF(n) == [code |-> "F", arg |-> n]
K(name) == [code |-> name, arg |-> 0]

KeyEvent(k, mods) == [key |-> k, mods |-> mods]

\* lines 969-970
XX == 0
ESC == 27

\* EscapeCodeBuilder::new, lines 1033-1038
NewEscapeCodeBuilder ==
    [esc_seq_len |-> 0, esc_seq |-> <<XX, XX, XX, XX, XX, XX>>]

\* what on_key returns: None, Some(key), or the panic of an unreachable!()
OutNone == [kind |-> "None", key |-> KeyEvent(K("UnknownEscSeq"), {})]
OutSome(key) == [kind |-> "Some", key |-> key]
OutPanic == [kind |-> "panic", key |-> KeyEvent(K("UnknownEscSeq"), {})]

\* no call of read_input is running: the locals of lines 190-194
NoRead ==
    [pc |-> "idle", path |-> "none", max_count |-> 0, total |-> 0,
     surrogate |-> 0, esc |-> NewEscapeCodeBuilder]

NoDecoder ==
    [esc |-> NewEscapeCodeBuilder, prev |-> NewEscapeCodeBuilder,
     key |-> KeyEvent(K("UnknownEscSeq"), {}), out |-> OutNone]

NoPaste == [pc |-> "idle", keys |-> <<>>, buffer |-> <<>>]

\* no call of write_all, no layout and no refresh is running
NoWrite ==
    [pc |-> "idle", err |-> "none", data |-> [len |-> 0, pairs |-> {}],
     pos |-> 0, slices |-> <<>>, shown |-> <<>>, written |-> 0, short |-> 0]
NoPaint ==
    [pc |-> "idle", s |-> <<>>, cols |-> 0, col |-> 0, row |-> 0,
     buffer |-> <<>>, new_col |-> 0, pos |-> [row |-> 0, col |-> 0]]
NoRefresh ==
    [op |-> "none", input |-> <<>>, calls |-> <<>>, res |-> "Ok",
     visible |-> TRUE, guarded |-> FALSE]
NoRenderer == wa = NoWrite /\ paint = NoPaint /\ refresh = NoRefresh

\* the threads of the program and what a thread outside every call holds
Threads == 1 .. 3
NoThread == [op |-> "idle", todo |-> <<>>]

InitObjects ==
    /\ con_input = <<>>
    /\ rd = NoRead
    /\ keylog = [fed |-> <<>>, events |-> <<>>]
    /\ dec = NoDecoder
    /\ pasted = NoPaste
    /\ NoRenderer
    /\ threads = [t \in Threads |-> NoThread]
    /\ con_paste = FALSE
    /\ con_text = <<>>
    /\ con_keys = 0
    /\ raw_mode = FALSE
    /\ tokens = <<>>
    /\ npipes = 0
    /\ chan = <<>>
    /\ event = <<>>
    /\ printers = [p \in Printers |-> NoPrinter]
    /\ reader = NoReader
    /\ hist = [enables |-> 0, prints |-> 0, keys |-> 0,
               unsignalled |-> <<>>]
    /\ delivered = [p \in Printers |-> <<>>]
    /\ last = NoCall

(***************************************************************************)
(* Actions of the raw-mode lifecycle.                                      *)
(***************************************************************************)
SetHost(host) ==
    /\ conin_mode' = host.conin_mode
    /\ conout_mode' = host.conout_mode
    /\ con_paste' = host.paste
    /\ con_text' = host.text

\* a call of Console::enable_raw_mode; the caller keeps the token of a
\* successful call.  `at_enable` remembers the modes as the call found them.
EnableRawMode ==
    /\ term.alive /\ ~Panicked
    /\ hist.enables < MaxEnables
    /\ \E f \in Faults(EnableCalls, EnableSoftCalls, BRACKETED_PASTE_ON) :
         LET r == enable_raw_mode(term, TheHost, raw_mode, strong_count, f)
         IN  /\ term' = r.self
             /\ SetHost(r.host)
             /\ raw_mode' = r.raw
             /\ tokens' = IF r.res = "ok"
                          THEN Append(tokens, [mode |-> r.token,
                                               at_enable |-> TheModes])
                          ELSE tokens
             /\ last' = [op |-> "enable", arg |-> <<>>, res |-> r.res,
                         before |-> TheModes,
                         token |-> r.token, at_enable |-> TheModes,
                         ntokens |-> Len(tokens), calls |-> r.calls]
    /\ hist' = [hist EXCEPT !.enables = @ + 1]
    /\ UNCHANGED <<con_keys, npipes, chan, event, printers, reader,
                   delivered, faulty, key_vars,
                   render_vars, thread_vars>>

RemoveAt(seq, i) == SubSeq(seq, 1, i - 1) \o SubSeq(seq, i + 1, Len(seq))

\* the release of token i: ConsoleMode::disable_raw_mode, after which the
\* caller drops the token
ReleaseToken(i) ==
    /\ ~Panicked
    /\ i \in 1 .. Len(tokens)
    /\ \E f \in Faults(DisableCalls, {}, BRACKETED_PASTE_OFF) :
         LET r == disable_raw_mode(tokens[i].mode, TheHost, raw_mode, f)
         IN  /\ SetHost(r.host)
             /\ raw_mode' = r.raw
             /\ last' = [op |-> "disable", arg |-> <<>>, res |-> r.res,
                         before |-> TheModes,
                         token |-> tokens[i].mode,
                         at_enable |-> tokens[i].at_enable,
                         ntokens |-> Len(tokens), calls |-> r.calls]
    /\ tokens' = RemoveAt(tokens, i)
    /\ UNCHANGED <<con_keys, term, npipes, chan, event, printers, reader,
                   hist, delivered, faulty, key_vars,
                   render_vars, thread_vars>>

(***************************************************************************)
(* The raw-mode lifecycle on its own: every console configuration, no      *)
(* external printer.                                                       *)
(***************************************************************************)
InitRawMode ==
    /\ faulty = EnableCalls \cup EnableSoftCalls \cup DisableCalls
    /\ conin_mode \in InitialInputModes
    /\ conout_mode \in InitialOutputModes
    /\ InitObjects
    /\ \E it \in BOOLEAN, ot \in BOOLEAN, c \in ColorModes, bp \in BOOLEAN :
         term = Console(it, ot, c, bp)

NextRawMode ==
    \/ EnableRawMode
    \/ \E i \in 1 .. MaxEnables : ReleaseToken(i)

SpecRawMode == InitRawMode /\ [][NextRawMode]_vars

(***************************************************************************)
(* The asynchronous pipe: AsyncPipe, lines 903-906, made by                *)
(* create_external_printer, lines 869-880.                                 *)
(***************************************************************************)
\* line 873: sync_channel(1)
ChannelBound == 1

\* SyncSender::send on the buffer of the channel: the call blocks while the
\* buffer holds ChannelBound messages
sync_send_overwrite(buf, msg) == [blocked |-> FALSE, buf |-> <<msg>>]

sync_send(buf, msg) ==
    IF Len(buf) < ChannelBound
    THEN [blocked |-> FALSE, buf |-> Append(buf, msg)]
    ELSE [blocked |-> TRUE, buf |-> buf]

\* the Receiver lives in the Arc<AsyncPipe> that the Console and the readers
\* made from it share; the event handle is closed with it (Handle::drop)
ReceiverAlive(i) ==
    \/ term.pipe_reader = i
    \/ reader.alive /\ reader.pipe_reader = i

\* the Console and every ExternalPrinter of the pipe hold a SyncSender
SenderAlive(i) ==
    \/ term.pipe_writer = i
    \/ \E p \in Printers : printers[p].alive /\ printers[p].sender = i

\* strings handed to print: "x" and "h" followed by U+1F600
Texts == { <<120>>, <<104, 128512>> }

\* str::encode_utf16, line 608
encode_scalar(c) ==
    IF c < 65536
    THEN <<c>>
    ELSE <<55296 + ((c - 65536) \div 1024), 56320 + ((c - 65536) % 1024)>>

RECURSIVE encode_utf16(_)
encode_utf16(s) ==
    IF s = <<>> THEN <<>> ELSE encode_scalar(Head(s)) \o encode_utf16(Tail(s))

(***************************************************************************)
(* Console::create_external_printer, create_reader and the drops.          *)
(***************************************************************************)
\* lines 857-887; `f` tells whether CreateEventW fails
CreateExternalPrinter(p) ==
    /\ term.alive /\ ~Panicked
    /\ ~printers[p].made
    /\ \A q \in Printers : q < p => printers[q].made
    /\ \E f \in Faults({"CreateEventW"}, {}, <<0>>) :
         IF term.pipe_writer # 0
         THEN /\ printers' = [printers EXCEPT ![p] =
                    [NoPrinter EXCEPT !.alive = TRUE, !.made = TRUE,
                                      !.event = term.pipe_reader,
                                      !.sender = term.pipe_writer]]
              /\ UNCHANGED <<term, npipes, chan, event, hist>>
         ELSE IF ~term.conin_isatty \/ ~term.conout_isatty
                   \/ "CreateEventW" \in f.calls
         THEN /\ printers' = [printers EXCEPT ![p] =
                    [NoPrinter EXCEPT !.made = TRUE]]
              /\ UNCHANGED <<term, npipes, chan, event, hist>>
         ELSE /\ npipes' = npipes + 1
              /\ chan' = Append(chan, <<>>)
              /\ event' = Append(event, FALSE)
              /\ hist' = [hist EXCEPT !.unsignalled = Append(@, 0)]
              /\ term' = [term EXCEPT !.pipe_reader = npipes + 1,
                                      !.pipe_writer = npipes + 1]
              /\ printers' = [printers EXCEPT ![p] =
                    [NoPrinter EXCEPT !.alive = TRUE, !.made = TRUE,
                                      !.event = npipes + 1,
                                      !.sender = npipes + 1]]
    /\ UNCHANGED <<host_vars, raw_mode, tokens, reader, delivered, last,
                   faulty, key_vars,
                   render_vars, thread_vars>>

\* an ExternalPrinter goes out of scope between two print calls
DropPrinter(p) ==
    /\ printers[p].alive /\ printers[p].pc = "idle"
    /\ printers' = [printers EXCEPT ![p].alive = FALSE]
    /\ UNCHANGED <<host_vars, term, raw_mode, tokens, npipes, chan, event,
                   reader, hist, delivered, last, faulty, key_vars,
                   render_vars, thread_vars>>

\* lines 841-847
CreateReader ==
    /\ term.alive /\ ~Panicked
    /\ ~reader.alive
    /\ reader' = [NoReader EXCEPT !.alive = TRUE,
                                  !.pipe_reader = term.pipe_reader]
    /\ UNCHANGED <<host_vars, term, raw_mode, tokens, npipes, chan, event,
                   printers, hist, delivered, last, faulty, key_vars,
                   render_vars, thread_vars>>

\* the reader goes out of scope between two wait_for_input calls
DropReader ==
    /\ reader.alive /\ reader.pc = "idle"
    /\ reader' = NoReader
    /\ UNCHANGED <<host_vars, term, raw_mode, tokens, npipes, chan, event,
                   printers, hist, delivered, last, faulty, key_vars,
                   render_vars, thread_vars>>

\* the Console goes out of scope, lines 890-897, and with it its pipe_reader
\* and pipe_writer
DropConsole ==
    /\ term.alive /\ ~Panicked
    /\ term' = [term EXCEPT !.alive = FALSE, !.pipe_reader = 0,
                            !.pipe_writer = 0]
    /\ UNCHANGED <<host_vars, raw_mode, tokens, npipes, chan, event,
                   printers, reader, hist, delivered, last, faulty, key_vars,
                   render_vars, thread_vars>>

(***************************************************************************)
(* ExternalPrinter::print, lines 920-931.                                  *)
(***************************************************************************)
\* line 922: the path print takes for a value of the raw-mode flag
print_path_always_channel(raw) == "channel"

print_path(raw) == IF ~raw THEN "direct" ELSE "channel"

\* lines 926-929: the steps of the channel path, in program order
print_channel_steps_signal_first == <<"signal", "send">>

print_channel_steps_send_only == <<"send">>

print_channel_steps == <<"send", "signal">>

\* the step that follows step `pc` in `steps`, "idle" after the last one
StepAfter(steps, pc) ==
    LET i == CHOOSE j \in 1 .. Len(steps) : steps[j] = pc
    IN  IF i < Len(steps) THEN steps[i + 1] ELSE "idle"

\* print is called with a string; in raw mode the call goes on to the
\* channel steps, otherwise write_to_console writes the string at once
PrintCall(p) ==
    /\ ~Panicked
    /\ printers[p].alive /\ printers[p].pc = "idle"
    /\ hist.prints < MaxMsgs
    /\ \E text \in Texts :
         IF print_path(raw_mode) = "direct"
         THEN \E f \in Faults({"write_all"}, {}, encode_utf16(text)) :
                LET data == encode_utf16(text)
                    ok == "write_all" \notin f.calls
                    host == console_write(TheHost, data,
                               IF ok THEN Len(data) ELSE f.k)
                IN  /\ SetHost(host)
                    /\ last' = [NoCall EXCEPT
                                  !.op = "print", !.arg = text,
                                  !.res = IF ok THEN "ok" ELSE "err"]
                    /\ UNCHANGED printers
         ELSE /\ printers' = [printers EXCEPT ![p].msg =
                      [from |-> p, seq |-> Len(printers[p].sent) + 1,
                       text |-> text],
                    ![p].sent = Append(@, text),
                    ![p].pc = print_channel_steps[1]]
              /\ UNCHANGED <<conin_mode, conout_mode, con_paste, con_text,
                             last>>
    /\ hist' = [hist EXCEPT !.prints = @ + 1]
    /\ UNCHANGED <<con_keys, term, raw_mode, tokens, npipes, chan, event,
                   reader, delivered, faulty, key_vars,
                   render_vars, thread_vars>>

\* lines 926-928: SyncSender::send blocks while the buffer is full and fails
\* once the Receiver is gone; it moves the message out of the call
PrintSend(p) ==
    /\ printers[p].pc = "send"
    /\ LET i == printers[p].sender
       IN  IF ~ReceiverAlive(i)
           THEN /\ printers' = [printers EXCEPT ![p].pc = "idle",
                                                ![p].msg = NoMsg]
                /\ UNCHANGED <<chan, hist>>
           ELSE /\ ~sync_send(chan[i], printers[p].msg).blocked
                /\ chan' = [chan EXCEPT ![i] =
                                sync_send(@, printers[p].msg).buf]
                /\ hist' = [hist EXCEPT !.unsignalled[i] = @ + 1]
                /\ printers' = [printers EXCEPT
                      ![p].pc = StepAfter(print_channel_steps, "send"),
                      ![p].msg = NoMsg]
    /\ UNCHANGED <<host_vars, term, raw_mode, tokens, npipes, event, reader,
                   delivered, last, faulty, key_vars,
                   render_vars, thread_vars>>

\* line 929: SetEvent(self.event); it fails on a handle already closed
PrintSignal(p) ==
    /\ printers[p].pc = "signal"
    /\ LET i == printers[p].event
       IN  \E f \in Faults({"SetEvent"}, {}, <<0>>) :
             IF "SetEvent" \in f.calls \/ ~ReceiverAlive(i)
             THEN /\ printers' = [printers EXCEPT ![p].pc = "idle"]
                  /\ hist' = [hist EXCEPT !.unsignalled[i] = @ - 1]
                  /\ UNCHANGED event
             ELSE /\ event' = [event EXCEPT ![i] = TRUE]
                  /\ hist' = [hist EXCEPT !.unsignalled[i] = @ - 1]
                  /\ printers' = [printers EXCEPT
                        ![p].pc = StepAfter(print_channel_steps, "signal")]
    /\ UNCHANGED <<host_vars, term, raw_mode, tokens, npipes, chan, reader,
                   delivered, last, faulty, key_vars,
                   render_vars, thread_vars>>

(***************************************************************************)
(* ConsoleRawReader::wait_for_input, lines 160-165, and select, lines      *)
(* 126-156.  A reader at "idle" is outside a call or blocked in            *)
(* WaitForMultipleObjects (or, without a pipe, in ReadConsoleInputW).      *)
(***************************************************************************)
\* lines 147-148: the steps select runs after waking on the pipe event, in
\* program order
pipe_wake_steps_recv_first == <<"recv", "reset">>

pipe_wake_steps == <<"reset", "recv">>

\* lines 136-144: WaitForMultipleObjects returns WAIT_OBJECT_0, the console
\* input handle being signalled while records are pending; read_input reads
\* a key record and select returns Event::KeyPress
SelectConsole ==
    /\ reader.alive /\ reader.pc = "idle" /\ reader.pipe_reader # 0
    /\ con_keys > 0
    /\ \E f \in Faults({"WaitForMultipleObjects",
                        "GetNumberOfConsoleInputEvents",
                        "ReadConsoleInputW"}, {}, <<0>>) :
         IF f.calls # {}
         THEN UNCHANGED con_keys
         ELSE con_keys' = con_keys - 1
    /\ UNCHANGED <<conin_mode, conout_mode, con_paste, con_text, term,
                   raw_mode, tokens, npipes, chan, event, printers, reader,
                   hist, delivered, last, faulty, key_vars,
                   render_vars, thread_vars>>

\* line 145: WaitForMultipleObjects returns WAIT_OBJECT_0 + 1: the pipe event
\* is signalled and no lower handle is
SelectPipe ==
    /\ reader.alive /\ reader.pc = "idle" /\ reader.pipe_reader # 0
    /\ con_keys = 0
    /\ event[reader.pipe_reader]
    /\ \E f \in Faults({"WaitForMultipleObjects"}, {}, <<0>>) :
         IF f.calls # {}
         THEN UNCHANGED reader
         ELSE reader' = [reader EXCEPT !.pc = pipe_wake_steps[1],
                                       !.steps = <<>>]
    /\ UNCHANGED <<host_vars, term, raw_mode, tokens, npipes, chan, event,
                   printers, hist, delivered, last, faulty, key_vars,
                   render_vars, thread_vars>>

\* ResetEvent on the manual-reset event of pipe i
reset_event_skipped(ev, i) == ev

reset_event(ev, i) == [ev EXCEPT ![i] = FALSE]

\* line 147: check(ResetEvent(pipe_reader.event.0))?
SelectReset ==
    /\ reader.pc = "reset"
    /\ \E f \in Faults({"ResetEvent"}, {}, <<0>>) :
         IF f.calls # {}
         THEN /\ reader' = [reader EXCEPT !.pc = "idle"]
              /\ UNCHANGED event
         ELSE /\ event' = reset_event(event, reader.pipe_reader)
              /\ reader' = [reader EXCEPT
                    !.pc = StepAfter(pipe_wake_steps, "reset"),
                    !.steps = Append(@, "ResetEvent")]
    /\ UNCHANGED <<host_vars, term, raw_mode, tokens, npipes, chan, printers,
                   hist, delivered, last, faulty, key_vars,
                   render_vars, thread_vars>>

\* lines 148-151: Receiver::recv blocks while the buffer is empty and a
\* sender lives, and fails once it is empty and every sender is gone
SelectRecv ==
    /\ reader.pc = "recv"
    /\ LET i == reader.pipe_reader
       IN  IF chan[i] # <<>>
           THEN /\ chan' = [chan EXCEPT ![i] = Tail(@)]
                /\ delivered' = [delivered EXCEPT ![Head(chan[i]).from] =
                                    Append(@, [seq |-> Head(chan[i]).seq,
                                               text |-> Head(chan[i]).text])]
                /\ reader' = [reader EXCEPT
                      !.pc = StepAfter(pipe_wake_steps, "recv"),
                      !.steps = Append(@, "recv")]
           ELSE /\ ~SenderAlive(i)
                /\ reader' = [reader EXCEPT !.pc = "idle",
                                            !.steps = Append(@, "recv failed")]
                /\ UNCHANGED <<chan, delivered>>
    /\ UNCHANGED <<host_vars, term, raw_mode, tokens, npipes, event, printers,
                   hist, last, faulty, key_vars,
                   render_vars, thread_vars>>

\* lines 163, 167-169: without a pipe wait_for_input is next_key
NextKey ==
    /\ reader.alive /\ reader.pc = "idle" /\ reader.pipe_reader = 0
    /\ con_keys > 0
    /\ \E f \in Faults({"ReadConsoleInputW"}, {}, <<0>>) :
         IF f.calls # {}
         THEN UNCHANGED con_keys
         ELSE con_keys' = con_keys - 1
    /\ UNCHANGED <<conin_mode, conout_mode, con_paste, con_text, term,
                   raw_mode, tokens, npipes, chan, event, printers, reader,
                   hist, delivered, last, faulty, key_vars,
                   render_vars, thread_vars>>

\* the console host queues a key record
KeyArrives ==
    /\ hist.keys < MaxKeys
    /\ con_keys' = con_keys + 1
    /\ hist' = [hist EXCEPT !.keys = @ + 1]
    /\ UNCHANGED <<conin_mode, conout_mode, con_paste, con_text, term,
                   raw_mode, tokens, npipes, chan, event, printers, reader,
                   delivered, last, faulty, key_vars,
                   render_vars, thread_vars>>

(***************************************************************************)
(* One Console on a console host with its printers and its reader.         *)
(***************************************************************************)
CookedInputMode ==
    {"PROCESSED_INPUT", "LINE_INPUT", "ECHO_INPUT", "MOUSE_INPUT",
     "INSERT_MODE", "QUICK_EDIT_MODE", "EXTENDED_FLAGS"}

\* the calls of the pipe, of the printers and of the reader
PipeCalls ==
    {"CreateEventW", "SetEvent", "ResetEvent", "WaitForMultipleObjects",
     "GetNumberOfConsoleInputEvents", "ReadConsoleInputW", "write_all"}

InitPrint ==
    /\ faulty = PipeCalls
    /\ conin_mode = CookedInputMode
    /\ conout_mode = {"PROCESSED_OUTPUT", "WRAP_AT_EOL_OUTPUT"}
    /\ \E tty \in BOOLEAN : term = Console(TRUE, tty, "Enabled", FALSE)
    /\ InitObjects

PrinterNext ==
    \E p \in Printers :
        \/ CreateExternalPrinter(p)
        \/ DropPrinter(p)
        \/ PrintCall(p)
        \/ PrintSend(p)
        \/ PrintSignal(p)

ReaderNext ==
    \/ CreateReader
    \/ DropReader
    \/ SelectPipe
    \/ SelectReset
    \/ SelectRecv

\* every operation on the pipe, with failing calls and with the objects
\* going out of scope; no key is typed
NextPrint ==
    \/ PrinterNext
    \/ ReaderNext
    \/ DropConsole
    \/ EnableRawMode
    \/ \E i \in 1 .. MaxEnables : ReleaseToken(i)

SpecPrint == InitPrint /\ [][NextPrint]_vars

(***************************************************************************)
(* A session that lasts: no call fails, the Console, its printers and its  *)
(* reader stay, raw mode is not left, and keys are typed.  The reader      *)
(* keeps calling wait_for_input and every thread in a print call is        *)
(* scheduled again: a step that stays possible is taken.                   *)
(***************************************************************************)
InitSession ==
    /\ faulty = {}
    /\ conin_mode = CookedInputMode
    /\ conout_mode = {"PROCESSED_OUTPUT", "WRAP_AT_EOL_OUTPUT"}
    /\ term = Console(TRUE, TRUE, "Enabled", FALSE)
    /\ InitObjects

NextSession ==
    \/ \E p \in Printers :
          \/ CreateExternalPrinter(p)
          \/ PrintCall(p)
          \/ PrintSend(p)
          \/ PrintSignal(p)
    \/ CreateReader
    \/ SelectConsole
    \/ SelectPipe
    \/ SelectReset
    \/ SelectRecv
    \/ NextKey
    \/ KeyArrives
    \/ EnableRawMode

FairSession ==
    /\ WF_vars(SelectConsole)
    /\ WF_vars(SelectPipe)
    /\ WF_vars(SelectReset)
    /\ WF_vars(SelectRecv)
    /\ \A p \in Printers : WF_vars(PrintSend(p)) /\ WF_vars(PrintSignal(p))

SpecSession == InitSession /\ [][NextSession]_vars /\ FairSession

(***************************************************************************)
(* Properties of the raw-mode lifecycle.                                   *)
(***************************************************************************)
Range(seq) == {seq[i] : i \in 1 .. Len(seq)}

\* C1: a successful enable_raw_mode followed by a successful
\* disable_raw_mode on the returned token leaves the console input mode and
\* the console output mode equal to what they were when enable_raw_mode was
\* called, in every configuration.
RawModeRoundTrip ==
    (last.op = "disable" /\ last.res = "ok") =>
        /\ conin_mode = last.at_enable.conin_mode
        /\ conout_mode = last.at_enable.conout_mode

\* a release that succeeded and had both modes to put back
RawModeRoundTripWitness ==
    /\ last.op = "disable" /\ last.res = "ok"
    /\ last.token.original_conout_mode.some
    /\ last.before.conin_mode # conin_mode
    /\ last.before.conout_mode # conout_mode
    /\ "VIRTUAL_TERMINAL_INPUT" \in last.before.conin_mode
    /\ "VIRTUAL_TERMINAL_INPUT" \notin conin_mode

\* C2: when enable_raw_mode returns an error no token is produced and the
\* console input and output modes are what they were before the call.
FailedEnableIsAtomic ==
    (last.op = "enable" /\ last.res = "err") =>
        /\ Len(tokens) = last.ntokens
        /\ conin_mode = last.before.conin_mode
        /\ conout_mode = last.before.conout_mode

\* C3: when disable_raw_mode returns an error the shared raw-mode flag is
\* false afterwards.
FailedDisableClearsFlag ==
    (last.op = "disable" /\ last.res = "err") => raw_mode = FALSE

\* C4: a release of a token that captured an output mode writes
\* bracketed-paste-off and restores the output mode on every exit path.
ReleaseRunsEveryStep ==
    (last.op = "disable" /\ last.token.original_conout_mode.some) =>
        {"write_all(BRACKETED_PASTE_OFF)", "SetConsoleMode(conout)"}
            \subseteq Range(last.calls)

\* C5: at most one raw-mode token is live at any time.
AtMostOneLiveToken == Len(tokens) <= 1

\* C6: in a session that lasts, every string handed to print in raw mode is
\* in the end returned by a reader that shares the printer's pipe, as the
\* ExternalPrint event of that number with that string; and whenever every
\* string handed to the printers of a pipe has been returned, the event of
\* the pipe is reset.
EveryMessageDelivered ==
    /\ \A p \in Printers : \A k \in 1 .. MaxMsgs :
          (/\ Len(printers[p].sent) >= k
           /\ reader.alive
           /\ reader.pipe_reader = printers[p].sender)
             ~> (/\ Len(delivered[p]) >= k
                 /\ delivered[p][k] =
                        [seq |-> k, text |-> printers[p].sent[k]])
    /\ [](\A i \in 1 .. npipes :
            (\A p \in Printers :
                printers[p].sender = i =>
                    Len(delivered[p]) = Len(printers[p].sent))
              => ~event[i])

\* two printers have each had a string returned, a key was typed meanwhile,
\* and the event is reset again
EveryMessageDeliveredWitness ==
    /\ \A p \in Printers :
          /\ printers[p].sent # <<>>
          /\ Len(delivered[p]) = Len(printers[p].sent)
    /\ hist.keys > 0
    /\ ~event[reader.pipe_reader]

DirectPrintFrame ==
    [][(hist'.prints = hist.prints + 1 /\ ~raw_mode) =>
          /\ chan' = chan
          /\ event' = event
          /\ printers' = printers
          /\ hist'.unsignalled = hist.unsignalled
          /\ last'.op = "print"
          /\ (last'.res = "ok" /\ last'.arg = <<120>>) =>
                  con_text' = <<120>>
          /\ (last'.res = "ok" /\ last'.arg = <<104, 128512>>) =>
                  con_text' = <<104, 55357, 56832>>]_vars

\* a direct print of "h" and U+1F600 has succeeded while a pipe exists
DirectPrintFrameWitness ==
    /\ ~raw_mode
    /\ npipes > 0
    /\ last.op = "print" /\ last.res = "ok"
    /\ last.arg = <<104, 128512>>
    /\ con_text = <<104, 55357, 56832>>

\* C9: on every pipe the SetEvent calls never outnumber the completed
\* sends: a print call reaches SetEvent only with its own send completed,
\* and a call whose send failed makes no SetEvent call.
SignalFollowsSend ==
    \A i \in 1 .. npipes :
        /\ hist.unsignalled[i] >= 0
        /\ hist.unsignalled[i] =
              Cardinality({p \in Printers : /\ printers[p].event = i
                                            /\ printers[p].pc = "signal"})

\* a message is queued and the event has been signalled for it
SignalFollowsSendWitness ==
    \E i \in 1 .. npipes :
        /\ chan[i] # <<>>
        /\ event[i]
        /\ hist.unsignalled[i] = 0

UP == 65
DOWN == 66
RIGHT == 67
LEFT == 68
END == 70
HOME == 72
INS == 50
DEL == 51
PGUP == 53
PGDN == 54

\* lines 983-989
SHIFT == 50
ALT == 51
ALT_SHIFT == 52
CTRL == 53
CTRL_SHIFT == 54
CTRL_ALT == 55
CTRL_ALT_SHIFT == 56

\* the value an unreachable!() arm stands for
Unreachable == K("unreachable!")

\* lines 993-1004
map_escape_meta_ctrl_shift_swapped(ch) ==
    CASE ch = SHIFT -> {"CTRL"}
      [] ch = ALT -> {"ALT"}
      [] ch = ALT_SHIFT -> {"ALT", "SHIFT"}
      [] ch = CTRL -> {"SHIFT"}
      [] ch = CTRL_SHIFT -> {"CTRL", "SHIFT"}
      [] ch = CTRL_ALT -> {"CTRL", "ALT"}
      [] ch = CTRL_ALT_SHIFT -> {"CTRL", "ALT", "SHIFT"}
      [] OTHER -> {"unreachable!"}

map_escape_meta(ch) ==
    CASE ch = SHIFT -> {"SHIFT"}
      [] ch = ALT -> {"ALT"}
      [] ch = ALT_SHIFT -> {"ALT", "SHIFT"}
      [] ch = CTRL -> {"CTRL"}
      [] ch = CTRL_SHIFT -> {"CTRL", "SHIFT"}
      [] ch = CTRL_ALT -> {"CTRL", "ALT"}
      [] ch = CTRL_ALT_SHIFT -> {"CTRL", "ALT", "SHIFT"}
      [] OTHER -> {"unreachable!"}

\* lines 1040-1042
is_processing(self) == self.esc_seq_len > 0

\* lines 1047-1048 and 1071-1072: esc_seq[esc_seq_len] = ch; esc_seq_len += 1
\* (an index past the array panics)
push(self, ch) ==
    IF self.esc_seq_len >= 6
    THEN [self |-> self, out |-> OutPanic]
    ELSE [self |-> [esc_seq_len |-> self.esc_seq_len + 1,
                    esc_seq |-> [self.esc_seq EXCEPT
                                    ![self.esc_seq_len + 1] = ch]],
          out |-> OutNone]

\* an array pattern: one set of characters for each of the six elements
ArrMatch(arr, pat) == \A i \in 1 .. 6 : arr[i] \in pat[i]

\* lines 1057-1070: the patterns of the `Incomplete` arm, each with the
\* characters it takes
IncompleteArms ==
    { [pat |-> <<{ESC}, {XX}, {XX}, {XX}, {XX}, {XX}>>, keys |-> {91, 79}],
      [pat |-> <<{ESC}, {91}, {XX}, {XX}, {XX}, {XX}>>, keys |-> {49, 50}],
      [pat |-> <<{ESC}, {91}, {XX}, {XX}, {XX}, {XX}>>,
       keys |-> {PGUP, PGDN, DEL}],
      [pat |-> <<{ESC}, {91}, {49}, {XX}, {XX}, {XX}>>, keys |-> {59}],
      [pat |-> <<{ESC}, {91}, {49}, {59}, {XX}, {XX}>>, keys |-> 50 .. 56],
      [pat |-> <<{ESC}, {91}, {49}, {XX}, {XX}, {XX}>>,
       keys |-> {53, 55, 56, 57}],
      [pat |-> <<{ESC}, {91}, {50}, {XX}, {XX}, {XX}>>,
       keys |-> {48, 49, 51, 52}],
      [pat |-> <<{ESC}, {91}, {PGUP, PGDN, DEL, INS}, {XX}, {XX}, {XX}>>,
       keys |-> {59}],
      [pat |-> <<{ESC}, {91}, {PGUP, PGDN, DEL, INS}, {59}, {XX}, {XX}>>,
       keys |-> 50 .. 56],
      [pat |-> <<{ESC}, {91}, {49}, {53, 55, 56, 57}, {XX}, {XX}>>,
       keys |-> {59}],
      [pat |-> <<{ESC}, {91}, {50}, {48, 49, 51, 52}, {XX}, {XX}>>,
       keys |-> {59}],
      [pat |-> <<{ESC}, {91}, {49}, {53, 55, 56, 57}, {59}, {XX}>>,
       keys |-> 50 .. 56],
      [pat |-> <<{ESC}, {91}, {50}, {48, 49, 51, 52}, {59}, {XX}>>,
       keys |-> 50 .. 56],
      [pat |-> <<{ESC}, {91}, {50}, {48}, {XX}, {XX}>>, keys |-> {48, 49}] }

\* lines 1082-1090 and 1124-1150: the key of a final character
final_key(ch) ==
    CASE ch = UP -> K("Up")
      [] ch = DOWN -> K("Down")
      [] ch = RIGHT -> K("Right")
      [] ch = LEFT -> K("Left")
      [] ch = END -> K("End")
      [] ch = HOME -> K("Home")
      [] ch = DEL -> K("Delete")
      [] ch = INS -> K("Insert")
      [] ch = PGUP -> K("PageUp")
      [] ch = PGDN -> K("PageDown")
      [] ch \in 80 .. 83 -> KF(ch - 79)
      [] ch \in 112 .. 121 -> KChar(ch - 64)
      [] OTHER -> Unreachable

\* lines 1099-1105 and 1223-1229
edit_key(ch) ==
    CASE ch = DEL -> K("Delete")
      [] ch = INS -> K("Insert")
      [] ch = PGUP -> K("PageUp")
      [] ch = PGDN -> K("PageDown")
      [] OTHER -> Unreachable

\* lines 1178-1188 and 1201-1211
function_key(x, ch) ==
    CASE x = 49 /\ ch = 53 -> KF(5)
      [] x = 49 /\ ch = 55 -> KF(6)
      [] x = 49 /\ ch = 56 -> KF(7)
      [] x = 49 /\ ch = 57 -> KF(8)
      [] x = 50 /\ ch = 48 -> KF(9)
      [] x = 50 /\ ch = 49 -> KF(10)
      [] x = 50 /\ ch = 51 -> KF(11)
      [] x = 50 /\ ch = 52 -> KF(12)
      [] OTHER -> Unreachable

\* Some(E(key, mods)), or the panic of the unreachable!() that either
\* operand ran into
emit(k, mods) ==
    IF k = Unreachable \/ "unreachable!" \in mods
    THEN OutPanic
    ELSE OutSome(KeyEvent(k, mods))

\* the array patterns of the arms that return a key, lines 1077-1244
CsiPat == <<{ESC}, {91}, {XX}, {XX}, {XX}, {XX}>>
EditPat == <<{ESC}, {91}, {PGUP, PGDN, DEL, INS}, {XX}, {XX}, {XX}>>
ModPat == <<{ESC}, {91}, {49}, {59}, 50 .. 56, {XX}>>
Ss3Pat == <<{ESC}, {79}, {XX}, {XX}, {XX}, {XX}>>
FnPats ==
    { <<{ESC}, {91}, {49}, {53, 55, 56, 57}, {XX}, {XX}>>,
      <<{ESC}, {91}, {50}, {48, 49, 51, 52}, {XX}, {XX}>> }
FnModPats ==
    { <<{ESC}, {91}, {49}, {53, 55, 56, 57}, {59}, 50 .. 56>>,
      <<{ESC}, {91}, {50}, {48, 49, 51, 52}, {59}, 50 .. 56>> }
EditModPat == <<{ESC}, {91}, Nat, {59}, 50 .. 56, {XX}>>
PasteStartPat == <<{ESC}, {91}, {50}, {48}, {48}, {XX}>>
PasteEndPat == <<{ESC}, {91}, {50}, {48}, {49}, {XX}>>

\* lines 1116-1118: the final characters of the `\E[1;{2345678}...` arm
ModFinals ==
    {UP, DOWN, RIGHT, LEFT, END, HOME, PGUP, PGDN, DEL, INS}
        \cup (112 .. 121) \cup (80 .. 83)

\* EscapeCodeBuilder::on_key, lines 1044-1254: the arms of the match in
\* program order, the first that matches being taken.  The result is the
\* decoder after the call and what the call returned.
on_key(self, key) ==
    IF ~is_processing(self)
    THEN IF key = KeyEvent(K("Esc"), {})
         THEN push(self, ESC)
         ELSE [self |-> self, out |-> OutSome(key)]
    ELSE
    LET arr == self.esc_seq
        plain == key.key.code = "Char" /\ key.mods = {}
        ch == key.key.arg
        tilde == plain /\ ch = 126
        ret(out) == [self |-> self, out |-> out]
    IN  IF plain /\ \E a \in IncompleteArms :
                       ArrMatch(arr, a.pat) /\ ch \in a.keys
        THEN push(self, ch)
        ELSE IF ArrMatch(arr, CsiPat) /\ plain
                   /\ ch \in {UP, DOWN, RIGHT, LEFT, END, HOME}
        THEN ret(emit(final_key(ch), {}))
        ELSE IF ArrMatch(arr, EditPat) /\ tilde
        THEN ret(emit(edit_key(arr[3]), {}))
        ELSE IF ArrMatch(arr, ModPat) /\ plain /\ ch \in ModFinals
        THEN ret(emit(final_key(ch), map_escape_meta(arr[5])))
        ELSE IF ArrMatch(arr, Ss3Pat) /\ plain /\ ch \in 80 .. 83
        THEN ret(emit(final_key(ch), {}))
        ELSE IF (\E pat \in FnPats : ArrMatch(arr, pat)) /\ tilde
        THEN ret(emit(function_key(arr[3], arr[4]), {}))
        ELSE IF (\E pat \in FnModPats : ArrMatch(arr, pat)) /\ tilde
        THEN ret(emit(function_key(arr[3], arr[4]),
                      map_escape_meta(arr[6])))
        ELSE IF ArrMatch(arr, EditModPat) /\ tilde
        THEN ret(emit(edit_key(arr[3]), map_escape_meta(arr[5])))
        ELSE IF ArrMatch(arr, PasteStartPat) /\ tilde
        THEN ret(OutSome(KeyEvent(K("BracketedPasteStart"), {})))
        ELSE IF ArrMatch(arr, PasteEndPat) /\ tilde
        THEN ret(OutSome(KeyEvent(K("BracketedPasteEnd"), {})))
        ELSE ret(OutSome(KeyEvent(K("UnknownEscSeq"), {})))

(***************************************************************************)
(* An EscapeCodeBuilder fed one key at a time.                             *)
(***************************************************************************)
\* the characters of the grammar and one outside it ('z')
GrammarChars ==
    {91, 79, 59, 126} \cup (48 .. 57) \cup {65, 66, 67, 68, 70, 72}
        \cup (80 .. 83) \cup (112 .. 121) \cup {122}

\* the keys fed: every grammar character unmodified, Esc, a modified
\* character, modified Esc and a key that is no character
DecoderKeys ==
    {KeyEvent(KChar(c), {}) : c \in GrammarChars}
        \cup {KeyEvent(K("Esc"), {}), KeyEvent(K("Esc"), {"ALT"}),
              KeyEvent(KChar(65), {"CTRL"}), KeyEvent(K("Up"), {})}

\* on_key(key) on the decoder; a panic ends the run
OnKey(key) ==
    /\ dec.out.kind # "panic"
    /\ LET r == on_key(dec.esc, key)
       IN  dec' = [esc |-> r.self, prev |-> dec.esc, key |-> key,
                   out |-> r.out]
    /\ UNCHANGED <<con_input, rd, keylog, pasted>>

\* EscapeCodeBuilder::new(): read_input starts every call with a new decoder
NewDecoder ==
    /\ dec.out.kind # "panic"
    /\ dec.esc # NewEscapeCodeBuilder
    /\ dec' = NoDecoder
    /\ UNCHANGED <<con_input, rd, keylog, pasted>>

\* the variables of the console, the raw-mode lifecycle and the pipe
console_vars ==
    <<conin_mode, conout_mode, con_paste, con_text, con_keys, term, raw_mode,
      tokens, npipes, chan, event, printers, reader, hist, delivered, last,
      faulty>>
session_vars == <<console_vars, render_vars, thread_vars>>

\* the objects the key-input specifications leave alone
InitNoSession ==
    /\ faulty = {}
    /\ conin_mode = CookedInputMode
    /\ conout_mode = {"PROCESSED_OUTPUT", "WRAP_AT_EOL_OUTPUT"}
    /\ term = Console(TRUE, TRUE, "Enabled", TRUE)
    /\ InitObjects

InitDecoder == InitNoSession

NextDecoder ==
    \/ \E key \in DecoderKeys : OnKey(key) /\ UNCHANGED session_vars
    \/ NewDecoder /\ UNCHANGED session_vars

SpecDecoder == InitDecoder /\ [][NextDecoder]_vars

\* C12: whenever on_key returns an event from a decoder that was
\* processing, the decoder is idle afterwards: is_processing() is false and
\* the length is 0.
DecoderResetsOnEvent ==
    (dec.out.kind = "Some" /\ is_processing(dec.prev)) =>
        /\ ~is_processing(dec.esc)
        /\ dec.esc.esc_seq_len = 0

\* C13: no key drives on_key into an unreachable!() arm or past the end of
\* the buffer (either is a panic), and the length never exceeds 6.
DecoderNeverAborts ==
    /\ dec.out.kind # "panic"
    /\ dec.esc.esc_seq_len <= 6

\* the keys and modifiers C14 names, written out
ModifiedFinals ==
    << <<65, K("Up")>>, <<66, K("Down")>>, <<67, K("Right")>>,
       <<68, K("Left")>>, <<70, K("End")>>, <<72, K("Home")>>,
       <<80, KF(1)>>, <<81, KF(2)>>, <<82, KF(3)>>, <<83, KF(4)>>,
       <<112, KChar(48)>>, <<113, KChar(49)>>, <<114, KChar(50)>>,
       <<115, KChar(51)>>, <<116, KChar(52)>>, <<117, KChar(53)>>,
       <<118, KChar(54)>>, <<119, KChar(55)>>, <<120, KChar(56)>>,
       <<121, KChar(57)>> >>

ModifierDigits ==
    << <<50, {"SHIFT"}>>, <<51, {"ALT"}>>, <<52, {"ALT", "SHIFT"}>>,
       <<53, {"CTRL"}>>, <<54, {"CTRL", "SHIFT"}>>, <<55, {"CTRL", "ALT"}>>,
       <<56, {"CTRL", "ALT", "SHIFT"}>> >>

\* the decoder after the first n keys of Esc, '[', '1', ';', m
ModifiedPrefix(m, n) ==
    [esc_seq_len |-> n,
     esc_seq |-> [i \in 1 .. 6 |->
                    IF i <= n THEN <<ESC, 91, 49, 59, m>>[i] ELSE XX]]

\* C14: fed to an idle decoder, each of Esc, '[', '1', ';', m returns None
\* and the final character then returns the one key of the table, with the
\* modifiers of the digit m.
ModifiedKeySequence ==
    \A d \in 1 .. Len(ModifierDigits) :
        LET m == ModifierDigits[d][1]
        IN  /\ \A n \in 0 .. 4 :
                  (/\ dec.prev = ModifiedPrefix(m, n)
                   /\ dec.key = IF n = 0 THEN KeyEvent(K("Esc"), {})
                                 ELSE KeyEvent(KChar(<<91, 49, 59, m>>[n]), {}))
                    => (/\ dec.out.kind = "None"
                        /\ dec.esc = ModifiedPrefix(m, n + 1))
            /\ \A x \in 1 .. Len(ModifiedFinals) :
                  (/\ dec.prev = ModifiedPrefix(m, 5)
                   /\ dec.key = KeyEvent(KChar(ModifiedFinals[x][1]), {}))
                    => dec.out = OutSome(KeyEvent(ModifiedFinals[x][2],
                                                  ModifierDigits[d][2]))

\* Esc, '[', '1', ';', '5', 'C' has returned KeyEvent(Right, CTRL)
ModifiedKeySequenceWitness ==
    /\ dec.prev = ModifiedPrefix(53, 5)
    /\ dec.key = KeyEvent(KChar(67), {})
    /\ dec.out = OutSome(KeyEvent(K("Right"), {"CTRL"}))


(***************************************************************************)
(* read_input, lines 184-332.  An INPUT_RECORD is its EventType and, for   *)
(* a key record, bKeyDown, wVirtualKeyCode (by the name of the VK_*        *)
(* constant, "other" for a code the table does not name), uChar and        *)
(* dwControlKeyState (the set of the names of its bits).  The host calls of*)
(* read_input succeed here.                                                *)
(***************************************************************************)
KeyRecord(down, vk, utf16, state) ==
    [EventType |-> "KEY_EVENT", bKeyDown |-> down, wVirtualKeyCode |-> vk,
     UnicodeChar |-> utf16, dwControlKeyState |-> state]

OtherRecord(type) ==
    [EventType |-> type, bKeyDown |-> FALSE, wVirtualKeyCode |-> "other",
     UnicodeChar |-> 0, dwControlKeyState |-> {}]

ControlKeyBits ==
    {"LEFT_ALT_PRESSED", "LEFT_CTRL_PRESSED", "RIGHT_ALT_PRESSED",
     "RIGHT_CTRL_PRESSED", "SHIFT_PRESSED"}

\* lines 217-228
key_modifiers_no_alt_gr(state) ==
    (IF state \cap {"LEFT_CTRL_PRESSED", "RIGHT_CTRL_PRESSED"} # {}
     THEN {"CTRL"} ELSE {})
    \cup (IF state \cap {"LEFT_ALT_PRESSED", "RIGHT_ALT_PRESSED"} # {}
          THEN {"ALT"} ELSE {})
    \cup (IF "SHIFT_PRESSED" \in state THEN {"SHIFT"} ELSE {})

key_modifiers(state) ==
    LET alt_gr == {"LEFT_CTRL_PRESSED", "RIGHT_ALT_PRESSED"} \subseteq state
    IN  (IF ~alt_gr
            /\ state \cap {"LEFT_CTRL_PRESSED", "RIGHT_CTRL_PRESSED"} # {}
         THEN {"CTRL"} ELSE {})
        \cup (IF ~alt_gr
                 /\ state \cap {"LEFT_ALT_PRESSED", "RIGHT_ALT_PRESSED"} # {}
              THEN {"ALT"} ELSE {})
        \cup (IF "SHIFT_PRESSED" \in state THEN {"SHIFT"} ELSE {})

\* lines 232-256: the virtual keys with a key code of their own
VirtualKeys ==
    [VK_LEFT |-> K("Left"), VK_RIGHT |-> K("Right"), VK_UP |-> K("Up"),
     VK_DOWN |-> K("Down"), VK_DELETE |-> K("Delete"), VK_HOME |-> K("Home"),
     VK_END |-> K("End"), VK_PRIOR |-> K("PageUp"), VK_NEXT |-> K("PageDown"),
     VK_INSERT |-> K("Insert"), VK_F1 |-> KF(1), VK_F2 |-> KF(2),
     VK_F3 |-> KF(3), VK_F4 |-> KF(4), VK_F5 |-> KF(5), VK_F6 |-> KF(6),
     VK_F7 |-> KF(7), VK_F8 |-> KF(8), VK_F9 |-> KF(9), VK_F10 |-> KF(10),
     VK_F11 |-> KF(11), VK_F12 |-> KF(12), VK_BACK |-> K("Backspace"),
     VK_RETURN |-> K("Enter"), VK_ESCAPE |-> K("Esc")]

\* lines 231-271: the key code and the modifiers after the match; "continue"
\* is the `continue` of line 267
virtual_key(vk, utf16, mods) ==
    IF vk \in DOMAIN VirtualKeys
    THEN [key_code |-> VirtualKeys[vk], mods |-> mods]
    ELSE IF vk = "VK_TAB"
    THEN IF "SHIFT" \in mods
         THEN [key_code |-> K("BackTab"), mods |-> mods \ {"SHIFT"}]
         ELSE [key_code |-> K("Tab"), mods |-> mods]
    ELSE IF utf16 = 0
    THEN [key_code |-> K("continue"), mods |-> mods]
    ELSE [key_code |-> K("UnknownEscSeq"), mods |-> mods]

HighSurrogates == 55296 .. 56319
LowSurrogates == 56320 .. 57343

\* std::char::decode_utf16(units).next() for one or two units, lines 282-286
decode_utf16_first(units) ==
    LET u == units[1]
    IN  IF u \notin HighSurrogates \cup LowSurrogates
        THEN [ok |-> TRUE, c |-> u]
        ELSE IF u \in LowSurrogates \/ Len(units) < 2
                  \/ units[2] \notin LowSurrogates
        THEN [ok |-> FALSE, c |-> u]
        ELSE [ok |-> TRUE,
              c |-> 65536 + (u - 55296) * 1024 + (units[2] - 56320)]

\* KeyEvent::new(c, mods), line 293
KeyEvent_new(c, mods) == KeyEvent(KChar(c), mods)

\* what read_input returns
Ok(key) == [res |-> "Ok", key |-> key, err |-> "none"]
Err(e) == [res |-> "Err", key |-> KeyEvent(K("UnknownEscSeq"), {}), err |-> e]
Continue == [res |-> "continue", key |-> KeyEvent(K("UnknownEscSeq"), {}),
             err |-> "none"]

\* lines 203-213: what the loop does with the record it has read
read_record_resize_skipped(rec) ==
    IF rec.EventType # "KEY_EVENT"
    THEN "continue"
    ELSE IF ~rec.bKeyDown /\ rec.wVirtualKeyCode # "VK_MENU"
    THEN "continue"
    ELSE "key"

read_record(rec) ==
    IF rec.EventType = "WINDOW_BUFFER_SIZE_EVENT"
    THEN "WindowResized"
    ELSE IF rec.EventType # "KEY_EVENT"
    THEN "continue"
    ELSE IF ~rec.bKeyDown /\ rec.wVirtualKeyCode # "VK_MENU"
    THEN "continue"
    ELSE "key"

\* lines 300-317: the peek after an unmodified Esc on an idle decoder;
\* `pending` is the input queue behind the Esc record
esc_processing_any_record(pending) ==
    IF Len(pending) > 0
    THEN Head(pending).EventType # "KEY_EVENT"
            \/ Head(pending).bKeyDown
            \/ Head(pending).wVirtualKeyCode # "VK_ESCAPE"
    ELSE FALSE

esc_processing(pending) ==
    IF Len(pending) > 0
    THEN IF Head(pending).EventType = "KEY_EVENT"
         THEN Head(pending).bKeyDown
                 \/ Head(pending).wVirtualKeyCode # "VK_ESCAPE"
         ELSE FALSE
    ELSE FALSE

Panic == [res |-> "panic", key |-> KeyEvent(K("UnknownEscSeq"), {}),
          err |-> "none"]

\* lines 297-330: the key through the lone-Esc peek and the escape decoder
after_key(esc, key, pending, enable_bracketed_paste) ==
    IF enable_bracketed_paste
    THEN LET processing ==
                 IF ~is_processing(esc) /\ key = KeyEvent(K("Esc"), {})
                 THEN esc_processing(pending)
                 ELSE TRUE
             r == on_key(esc, key)
         IN  IF ~processing
             THEN [ret |-> Ok(key), esc |-> esc]
             ELSE IF r.out.kind = "panic"
             THEN [ret |-> Panic, esc |-> esc]
             ELSE IF r.out.kind = "Some"
             THEN [ret |-> Ok(r.out.key), esc |-> r.self]
             ELSE [ret |-> Continue, esc |-> r.self]
    ELSE [ret |-> Ok(key), esc |-> esc]

\* one turn of the loop of read_input after ReadConsoleInputW has read
\* `rec`, lines 203-330: what the turn returns ("continue": the loop goes
\* on) and the locals `surrogate` and `esc` after it
read_input(surrogate, esc, rec, pending, enable_bracketed_paste) ==
    LET utf16 == rec.UnicodeChar
        vk == virtual_key(rec.wVirtualKeyCode, utf16,
                          key_modifiers(rec.dwControlKeyState))
        orc == decode_utf16_first(IF surrogate = 0 THEN <<utf16>>
                                  ELSE <<surrogate, utf16>>)
        keep(ret) == [ret |-> ret, surrogate |-> surrogate, esc |-> esc]
        done(key) ==
            LET a == after_key(esc, key, pending, enable_bracketed_paste)
            IN  [ret |-> a.ret, surrogate |-> surrogate, esc |-> a.esc]
    IN  IF read_record(rec) = "WindowResized"
        THEN keep(Err("WindowResized"))
        ELSE IF read_record(rec) = "continue"
        THEN keep(Continue)
        ELSE IF vk.key_code = K("continue")
        THEN keep(Continue)
        ELSE IF vk.key_code # K("UnknownEscSeq")
        THEN done(KeyEvent(vk.key_code, vk.mods))
        ELSE IF utf16 = 27
        THEN done(KeyEvent(K("Esc"), vk.mods))
        ELSE IF utf16 \in HighSurrogates
        THEN [ret |-> Continue, surrogate |-> utf16, esc |-> esc]
        ELSE IF ~orc.ok
        THEN keep(Err("DecodeUtf16Error"))
        ELSE done(KeyEvent_new(orc.c, vk.mods))

\* u32::MAX of line 168 (4294967295), cut to the largest integer the model
\* checker holds: `total` counts the records read, at most MaxRecords, so
\* the test of line 196 is false under either value
MaxU32 == 2147483647

\* most input records the console is given in one run
MaxRecords == 3

\* the records of the runs: Esc down and up, '[' and 'A' (the bytes of a
\* VT sequence arrive as key-down records without a virtual key), the two
\* halves of U+1F600, a resize and a focus record
EscDown == KeyRecord(TRUE, "VK_ESCAPE", 27, {})
EscUp == KeyRecord(FALSE, "VK_ESCAPE", 27, {})
CharDown(utf16) == KeyRecord(TRUE, "other", utf16, {})
HighHalf == 55357
LowHalf == 56832
InputRecords ==
    {EscDown, EscUp, CharDown(91), CharDown(65), CharDown(HighHalf),
     CharDown(LowHalf), OtherRecord("WINDOW_BUFFER_SIZE_EVENT"),
     OtherRecord("FOCUS_EVENT")}

\* the console is given one more input record
RecordArrives(rec) ==
    /\ Len(keylog.fed) < MaxRecords
    /\ con_input' = Append(con_input, rec)
    /\ keylog' = [keylog EXCEPT !.fed = Append(@, rec)]
    /\ UNCHANGED <<rd, dec, pasted>>

\* wait_for_input without a pipe: next_key calls read_input, lines 163-169
CallNextKey ==
    /\ reader.alive /\ reader.pipe_reader = 0
    /\ rd.pc = "idle"
    /\ rd' = [pc |-> "loop", path |-> "next_key", max_count |-> MaxU32,
              total |-> 0, surrogate |-> 0, esc |-> NewEscapeCodeBuilder]
    /\ UNCHANGED <<con_input, keylog, dec, pasted>>

\* select woken by the console input handle, lines 135-141: read_input is
\* called with the number of records queued now
SelectInput ==
    /\ reader.alive /\ reader.pipe_reader # 0
    /\ rd.pc = "idle"
    /\ con_input # <<>>
    /\ rd' = [pc |-> "loop", path |-> "select",
              max_count |-> Len(con_input), total |-> 0, surrogate |-> 0,
              esc |-> NewEscapeCodeBuilder]
    /\ UNCHANGED <<con_input, keylog, dec, pasted>>

\* read_input has returned `ret` to its caller: select swallows
\* UnknownEscSeq without modifiers and waits again (line 142), everything
\* else is the caller's result
Returned(ret) ==
    /\ rd' = IF ret = Panic THEN [NoRead EXCEPT !.pc = "panicked"]
             ELSE NoRead
    /\ keylog' =
          IF rd.path = "select"
                /\ ret = Ok(KeyEvent(K("UnknownEscSeq"), {}))
          THEN keylog
          ELSE [keylog EXCEPT !.events = Append(@, ret)]

\* lines 196-198
ReadInputLimit ==
    /\ rd.pc = "loop"
    /\ rd.total >= rd.max_count
    /\ Returned(Ok(KeyEvent(K("UnknownEscSeq"), {})))
    /\ UNCHANGED <<con_input, dec, pasted>>

\* lines 200-330: ReadConsoleInputW takes the oldest record
ReadInput ==
    /\ rd.pc = "loop"
    /\ rd.total < rd.max_count
    /\ con_input # <<>>
    /\ con_input' = Tail(con_input)
    /\ LET r == read_input(rd.surrogate, rd.esc, Head(con_input),
                           Tail(con_input), term.enable_bracketed_paste)
       IN  IF r.ret = Continue
           THEN /\ rd' = [rd EXCEPT !.total = @ + 1,
                                    !.surrogate = r.surrogate,
                                    !.esc = r.esc]
                /\ UNCHANGED keylog
           ELSE Returned(r.ret)
    /\ UNCHANGED <<dec, pasted>>

\* a reader over a console with or without a pipe, bracketed paste on or
\* off, with the records of `queue` typed before the first call
InitReader(queue) ==
    /\ faulty = {}
    /\ conin_mode = CookedInputMode
    /\ conout_mode = {"PROCESSED_OUTPUT", "WRAP_AT_EOL_OUTPUT"}
    /\ con_input = queue
    /\ rd = NoRead
    /\ keylog = [fed |-> queue, events |-> <<>>]
    /\ dec = NoDecoder
    /\ pasted = NoPaste
    /\ NoRenderer
    /\ threads = [t \in Threads |-> NoThread]
    /\ con_paste = FALSE
    /\ con_text = <<>>
    /\ con_keys = 0
    /\ raw_mode = FALSE
    /\ tokens = <<>>
    /\ delivered = [p \in Printers |-> <<>>]
    /\ last = NoCall
    /\ \E pipe \in {0, 1}, bp \in BOOLEAN :
         /\ term = [Console(TRUE, TRUE, "Enabled", bp) EXCEPT
                        !.pipe_reader = pipe, !.pipe_writer = pipe]
         /\ reader = [NoReader EXCEPT !.alive = TRUE, !.pipe_reader = pipe]
         /\ npipes = pipe
         /\ chan = [i \in 1 .. pipe |-> <<>>]
         /\ event = [i \in 1 .. pipe |-> FALSE]
         /\ hist = [enables |-> 0, prints |-> 0, keys |-> 0,
                    unsignalled |-> [i \in 1 .. pipe |-> 0]]
         /\ printers = [p \in Printers |->
                IF p = 1 /\ pipe = 1
                THEN [NoPrinter EXCEPT !.alive = TRUE, !.made = TRUE,
                                       !.event = pipe, !.sender = pipe]
                ELSE NoPrinter]

InitInput == InitReader(<<>>)

NextInput ==
    \/ \E rec \in InputRecords : RecordArrives(rec) /\ UNCHANGED session_vars
    \/ CallNextKey /\ UNCHANGED session_vars
    \/ SelectInput /\ UNCHANGED session_vars
    \/ ReadInputLimit /\ UNCHANGED session_vars
    \/ ReadInput /\ UNCHANGED session_vars

SpecInput == InitInput /\ [][NextInput]_vars

\* the reader has nothing left to do: the queue is empty and no call of
\* read_input is about to return
Quiescent ==
    /\ con_input = <<>>
    /\ \/ rd.pc = "idle"
       \/ rd.pc = "loop" /\ rd.total < rd.max_count

\* the events of the reader when the whole of `queue` is queued before the
\* first read: the loop of lines 195-331 run over it call after call;
\* `clean` says that the last call has returned
RECURSIVE batch_events(_, _, _, _, _)
batch_events(queue, surrogate, esc, enable_bracketed_paste, swallow) ==
    IF queue = <<>>
    THEN [events |-> <<>>,
          clean |-> surrogate = 0 /\ esc = NewEscapeCodeBuilder]
    ELSE LET r == read_input(surrogate, esc, Head(queue), Tail(queue),
                             enable_bracketed_paste)
             rest == batch_events(Tail(queue), 0, NewEscapeCodeBuilder,
                                  enable_bracketed_paste, swallow)
         IN  IF r.ret = Continue
             THEN batch_events(Tail(queue), r.surrogate, r.esc,
                               enable_bracketed_paste, swallow)
             ELSE IF swallow /\ r.ret = Ok(KeyEvent(K("UnknownEscSeq"), {}))
             THEN rest
             ELSE [events |-> <<r.ret>> \o rest.events,
                   clean |-> rest.clean]

KeyRecordsOnly(queue) ==
    \A i \in 1 .. Len(queue) : queue[i].EventType = "KEY_EVENT"

\* C11: once the reader has consumed a sequence of key records, the events
\* it has produced are the events it produces when the whole sequence is
\* queued before the first read, however the records were split across
\* reads and wake-ups.
SplitInvariantDecoding ==
    LET batch == batch_events(keylog.fed, 0, NewEscapeCodeBuilder,
                              term.enable_bracketed_paste,
                              reader.pipe_reader # 0)
    IN  (Quiescent /\ KeyRecordsOnly(keylog.fed) /\ batch.clean)
            => keylog.events = batch.events

\* the reader takes the record at the head of the queue in this step
ReadsRecord ==
    /\ rd.pc = "loop"
    /\ rd.total < rd.max_count
    /\ con_input # <<>>
    /\ con_input' = Tail(con_input)

\* C15: a step in which the reader consumes a window-buffer-size record
\* ends the call with the WindowResized error and with nothing else, in
\* the single-key path and in the multiplexed path.
ResizeEndsCall ==
    [][(ReadsRecord
          /\ Head(con_input).EventType = "WINDOW_BUFFER_SIZE_EVENT")
         => /\ keylog'.events = Append(keylog.events, Err("WindowResized"))
            /\ rd'.pc = "idle"]_vars

ResizeEndsCallWitness ==
    /\ reader.pipe_reader # 0
    /\ keylog.events # <<>>
    /\ keylog.events[Len(keylog.events)] = Err("WindowResized")
    /\ keylog.fed[Len(keylog.fed) - Len(con_input)].EventType
          = "WINDOW_BUFFER_SIZE_EVENT"

\* C16: once the reader has consumed a key record with the high half and
\* then a key record with the low half of U+1F600, it has produced the one
\* event KeyEvent(Char(U+1F600), no modifiers) and nothing else.
SurrogateRoundTrip ==
    (Quiescent /\ keylog.fed = <<CharDown(HighHalf), CharDown(LowHalf)>>)
        => keylog.events = <<Ok(KeyEvent(KChar(128512), {}))>>

\* the record at the head of the queue carries a UTF-16 unit to decode
\* (lines 277-293)
CarriesUnit(rec) ==
    /\ read_record(rec) = "key"
    /\ virtual_key(rec.wVirtualKeyCode, rec.UnicodeChar, {}).key_code
          = K("UnknownEscSeq")
    /\ rec.UnicodeChar # 27

\* C17: a step in which the reader consumes a unit that cannot be decoded
\* (a low surrogate with no high surrogate stashed, or anything but a low
\* surrogate with a high surrogate stashed) ends the call with the Eof
\* error.
DecodeFailureIsEof ==
    [][(ReadsRecord
          /\ CarriesUnit(Head(con_input))
          /\ \/ rd.surrogate = 0
                   /\ Head(con_input).UnicodeChar \in LowSurrogates
             \/ rd.surrogate # 0
                   /\ Head(con_input).UnicodeChar \notin LowSurrogates)
         => keylog'.events = Append(keylog.events, Err("Eof"))]_vars

\* the Esc just read stands alone, as the code decides it and as the
\* claim words it
StandaloneEsc(pending) ==
    \/ pending = <<>>
    \/ Head(pending).EventType # "KEY_EVENT"
    \/ ~Head(pending).bKeyDown /\ Head(pending).wVirtualKeyCode = "VK_ESCAPE"

StandaloneEscKeyUpOnly(pending) ==
    \/ pending = <<>>
    \/ /\ Head(pending).EventType = "KEY_EVENT"
       /\ ~Head(pending).bKeyDown
       /\ Head(pending).wVirtualKeyCode = "VK_ESCAPE"

\* the reader takes an unmodified Esc with bracketed paste on and the
\* decoder idle
ReadsLoneEsc ==
    /\ ReadsRecord
    /\ term.enable_bracketed_paste
    /\ ~is_processing(rd.esc)
    /\ Head(con_input) = EscDown

\* C18 as stated: the Esc is reported alone exactly when no record is
\* pending or the next pending record is the key-up of Esc; before any
\* other pending record it goes to the decoder and nothing is reported.
LoneEscKeyUpOnly ==
    [][ReadsLoneEsc
         => IF StandaloneEscKeyUpOnly(Tail(con_input))
            THEN keylog'.events
                    = Append(keylog.events, Ok(KeyEvent(K("Esc"), {})))
            ELSE /\ keylog'.events = keylog.events
                 /\ is_processing(rd'.esc)]_vars

\* C18: the Esc is reported alone exactly when no record is pending, or
\* the next pending record is not a key record, or it is the key-up of
\* Esc; before any other pending key record it goes to the decoder and
\* nothing is reported.
LoneEscPolicy ==
    [][ReadsLoneEsc
         => IF StandaloneEsc(Tail(con_input))
            THEN /\ keylog'.events
                      = Append(keylog.events, Ok(KeyEvent(K("Esc"), {})))
                 /\ rd'.pc = "idle"
            ELSE /\ keylog'.events = keylog.events
                 /\ is_processing(rd'.esc)]_vars

LoneEscPolicyWitness ==
    /\ term.enable_bracketed_paste
    /\ keylog.fed = <<EscDown, OtherRecord("FOCUS_EVENT")>>
    /\ con_input = <<OtherRecord("FOCUS_EVENT")>>
    /\ keylog.events = <<Ok(KeyEvent(K("Esc"), {}))>>

(***************************************************************************)
(* escape::read_pasted_text, lines 1006-1025.  `pasted` holds the keys     *)
(* next_key has returned to the loop so far and the buffer.                *)
(***************************************************************************)
TAB == 9
LF == 10
CR == 13

\* str::replace: every non-overlapping match of `from`, left to right
RECURSIVE str_replace(_, _, _)
str_replace(str, from, to) ==
    IF Len(str) < Len(from)
    THEN str
    ELSE IF SubSeq(str, 1, Len(from)) = from
    THEN to \o str_replace(SubSeq(str, Len(from) + 1, Len(str)), from, to)
    ELSE <<Head(str)>> \o str_replace(Tail(str), from, to)

\* lines 1012-1013
normalize_newlines_cr_first(buffer) ==
    str_replace(str_replace(buffer, <<CR>>, <<LF>>), <<CR, LF>>, <<LF>>)

normalize_newlines(buffer) ==
    str_replace(str_replace(buffer, <<CR, LF>>, <<LF>>), <<CR>>, <<LF>>)

\* lines 1016-1020: what a key other than BracketedPasteEnd pushes
paste_push(key) ==
    IF key.key.code = "Char" /\ key.mods = {}
    THEN <<key.key.arg>>
    ELSE IF key = KeyEvent(KChar(73), {"CTRL"})
    THEN <<TAB>>
    ELSE IF key = KeyEvent(KChar(77), {"CTRL"})
    THEN <<CR>>
    ELSE IF key = KeyEvent(KChar(74), {"CTRL"})
    THEN <<LF>>
    ELSE <<>>

\* most keys of one paste before its end marker
MaxPaste == 3

\* the keys of the runs: unmodified 'a', CR and LF, Ctrl-I, Ctrl-M, Ctrl-J,
\* Ctrl-A, Alt-CR, Up, and the end marker with and without a modifier
PasteKeys ==
    {KeyEvent(KChar(97), {}), KeyEvent(KChar(CR), {}),
     KeyEvent(KChar(LF), {}), KeyEvent(KChar(73), {"CTRL"}),
     KeyEvent(KChar(77), {"CTRL"}), KeyEvent(KChar(74), {"CTRL"}),
     KeyEvent(KChar(65), {"CTRL"}), KeyEvent(KChar(CR), {"ALT"}),
     KeyEvent(K("Up"), {}), KeyEvent(K("BracketedPasteEnd"), {}),
     KeyEvent(K("BracketedPasteEnd"), {"SHIFT"})}

\* one turn of the loop, lines 1010-1021: next_key has returned `ret`
PasteKey(ret) ==
    /\ pasted.pc = "loop"
    /\ Len(pasted.keys) < MaxPaste \/ ret.res = "Err"
          \/ ret.key.key = K("BracketedPasteEnd")
    /\ pasted' =
          IF ret.res = "Err"
          THEN [pc |-> "failed", keys |-> pasted.keys,
                buffer |-> pasted.buffer]
          ELSE IF ret.key.key = K("BracketedPasteEnd")
          THEN [pc |-> "done", keys |-> Append(pasted.keys, ret.key),
                buffer |-> normalize_newlines(pasted.buffer)]
          ELSE [pc |-> "loop", keys |-> Append(pasted.keys, ret.key),
                buffer |-> pasted.buffer \o paste_push(ret.key)]
    /\ UNCHANGED <<con_input, rd, keylog, dec>>

InitPaste ==
    /\ faulty = {}
    /\ conin_mode = CookedInputMode
    /\ conout_mode = {"PROCESSED_OUTPUT", "WRAP_AT_EOL_OUTPUT"}
    /\ term = Console(TRUE, TRUE, "Enabled", TRUE)
    /\ con_input = <<>>
    /\ rd = NoRead
    /\ keylog = [fed |-> <<>>, events |-> <<>>]
    /\ dec = NoDecoder
    /\ pasted = [NoPaste EXCEPT !.pc = "loop"]
    /\ NoRenderer
    /\ threads = [t \in Threads |-> NoThread]
    /\ con_paste = FALSE
    /\ con_text = <<>>
    /\ con_keys = 0
    /\ raw_mode = FALSE
    /\ tokens = <<>>
    /\ npipes = 0
    /\ chan = <<>>
    /\ event = <<>>
    /\ printers = [p \in Printers |-> NoPrinter]
    /\ reader = [NoReader EXCEPT !.alive = TRUE]
    /\ hist = [enables |-> 0, prints |-> 0, keys |-> 0,
               unsignalled |-> <<>>]
    /\ delivered = [p \in Printers |-> <<>>]
    /\ last = NoCall

NextPaste ==
    \E ret \in {Ok(key) : key \in PasteKeys} \cup {Err("WindowResized")} :
        PasteKey(ret) /\ UNCHANGED session_vars

SpecPaste == InitPaste /\ [][NextPaste]_vars

\* what the claim says a key contributes, and its one-pass reading of the
\* newline rule: a CR with its LF, or a CR alone, becomes one LF
PasteContribution(key) ==
    IF key.key.code = "Char" /\ key.mods = {} THEN <<key.key.arg>>
    ELSE IF key.key = KChar(73) /\ key.mods = {"CTRL"} THEN <<9>>
    ELSE IF key.key = KChar(77) /\ key.mods = {"CTRL"} THEN <<13>>
    ELSE IF key.key = KChar(74) /\ key.mods = {"CTRL"} THEN <<10>>
    ELSE <<>>

RECURSIVE PasteConcat(_)
PasteConcat(keys) ==
    IF keys = <<>> THEN <<>>
    ELSE PasteContribution(Head(keys)) \o PasteConcat(Tail(keys))

RECURSIVE OneLfPerBreak(_)
OneLfPerBreak(str) ==
    IF str = <<>> THEN <<>>
    ELSE IF Head(str) = 13 /\ Len(str) >= 2 /\ str[2] = 10
    THEN <<10>> \o OneLfPerBreak(SubSeq(str, 3, Len(str)))
    ELSE IF Head(str) = 13
    THEN <<10>> \o OneLfPerBreak(Tail(str))
    ELSE <<Head(str)>> \o OneLfPerBreak(Tail(str))

\* C19: when read_pasted_text returns, after a key sequence that ends with
\* BracketedPasteEnd, the string is the concatenation of what the keys
\* before the end marker contribute with every CRLF and every other CR
\* replaced by one LF, and it holds no CR.
PastedTextResult ==
    pasted.pc = "done" =>
        /\ pasted.buffer
              = OneLfPerBreak(PasteConcat(SubSeq(pasted.keys, 1,
                                                 Len(pasted.keys) - 1)))
        /\ \A i \in 1 .. Len(pasted.buffer) : pasted.buffer[i] # 13

PastedTextResultWitness ==
    /\ pasted.pc = "done"
    /\ pasted.keys = <<KeyEvent(KChar(77), {"CTRL"}), KeyEvent(KChar(10), {}),
                       KeyEvent(KChar(13), {}),
                       KeyEvent(K("BracketedPasteEnd"), {"SHIFT"})>>
    /\ pasted.buffer = <<10, 10>>

(***************************************************************************)
(* The modifiers of one key record, lines 217-271: the reader of SpecInput *)
(* over a queue of one key-down record, for every control-key state.       *)
(***************************************************************************)
\* Tab, Left, 'a', and a key without a character (the Shift key itself)
ModifierRecords ==
    {KeyRecord(TRUE, k[1], k[2], state) :
        k \in {<<"VK_TAB", 9>>, <<"VK_LEFT", 0>>, <<"other", 97>>,
               <<"other", 0>>},
        state \in SUBSET ControlKeyBits}

InitKeyRecord == \E rec \in ModifierRecords : InitReader(<<rec>>)

NextKeyRecord ==
    \/ CallNextKey /\ UNCHANGED session_vars
    \/ SelectInput /\ UNCHANGED session_vars
    \/ ReadInputLimit /\ UNCHANGED session_vars
    \/ ReadInput /\ UNCHANGED session_vars

SpecKeyRecord == InitKeyRecord /\ [][NextKeyRecord]_vars

\* the bits of the record that was typed
TypedState == keylog.fed[1].dwControlKeyState
TypedAltGr == {"LEFT_CTRL_PRESSED", "RIGHT_ALT_PRESSED"} \subseteq TypedState
TypedCtrl ==
    TypedState \cap {"LEFT_CTRL_PRESSED", "RIGHT_CTRL_PRESSED"} # {}
TypedAlt == TypedState \cap {"LEFT_ALT_PRESSED", "RIGHT_ALT_PRESSED"} # {}

\* C20 as stated: the key event of a record with LEFT_CTRL and RIGHT_ALT
\* has neither CTRL nor ALT and has SHIFT exactly when the SHIFT bit is
\* set; the key event of any other record has CTRL exactly when a CTRL bit
\* is set and ALT exactly when an ALT bit is set.
AltGrShiftFollowsBit ==
    keylog.events # <<>> =>
        LET mods == keylog.events[1].key.mods
        IN  /\ keylog.events[1].res = "Ok"
            /\ IF TypedAltGr
               THEN /\ "CTRL" \notin mods
                    /\ "ALT" \notin mods
                    /\ "SHIFT" \in mods <=> "SHIFT_PRESSED" \in TypedState
               ELSE /\ "CTRL" \in mods <=> TypedCtrl
                    /\ "ALT" \in mods <=> TypedAlt

\* C20: the key event of a record with LEFT_CTRL and RIGHT_ALT has neither
\* CTRL nor ALT, and has SHIFT exactly when the SHIFT bit is set and the
\* key is not Tab (Shift+Tab is BackTab without SHIFT); the key event of
\* any other record has CTRL exactly when a CTRL bit is set and ALT
\* exactly when an ALT bit is set.
AltGrDisambiguation ==
    keylog.events # <<>> =>
        LET mods == keylog.events[1].key.mods
        IN  /\ keylog.events[1].res = "Ok"
            /\ IF TypedAltGr
               THEN /\ "CTRL" \notin mods
                    /\ "ALT" \notin mods
                    /\ "SHIFT" \in mods <=>
                          /\ "SHIFT_PRESSED" \in TypedState
                          /\ keylog.fed[1].wVirtualKeyCode # "VK_TAB"
                    /\ keylog.fed[1].wVirtualKeyCode = "VK_TAB" =>
                          keylog.events[1].key.key
                            = IF "SHIFT_PRESSED" \in TypedState
                              THEN K("BackTab") ELSE K("Tab")
               ELSE /\ "CTRL" \in mods <=> TypedCtrl
                    /\ "ALT" \in mods <=> TypedAlt

AltGrDisambiguationWitness ==
    /\ TypedState = {"LEFT_CTRL_PRESSED", "RIGHT_ALT_PRESSED", "SHIFT_PRESSED"}
    /\ keylog.fed[1].wVirtualKeyCode = "VK_LEFT"
    /\ keylog.events = <<Ok(KeyEvent(K("Left"), {"SHIFT"}))>>

(***************************************************************************)
(* write_all, lines 614-640, unit by unit.  The data of a call is its      *)
(* length and the positions (from 1) of its high surrogates, each followed *)
(* by its low surrogate; `pos` is the number of units already cut off the  *)
(* front of `data` (line 637).                                             *)
(***************************************************************************)
\* line 617: the units of a full slice
ChunkUnits == 8192

Utf16Data(len, pairs) == [len |-> len, pairs |-> pairs]

IsHigh(data, i) == i \in data.pairs
IsLow(data, i) == (i - 1) \in data.pairs

\* lines 617-623: the length of the slice cut from the data left after
\* `pos` units; data[8191] is the unit at position pos + 8192
slice_len(data, pos) ==
    IF data.len - pos < ChunkUnits
    THEN data.len - pos
    ELSE IF IsHigh(data, pos + ChunkUnits)
    THEN ChunkUnits - 1
    ELSE ChunkUnits

\* lines 616, 639: the loop test, Ok(()) when no data is left
write_all_next(w) ==
    IF w.pos >= w.data.len THEN [w EXCEPT !.pc = "done"] ELSE w

\* one turn of the loop, lines 617-637: WriteConsoleW fails (`ok` false)
\* or accepts `written` units of the slice
write_all_turn_retry_zero(w, ok, written) ==
    LET n == slice_len(w.data, w.pos)
        cut == [w EXCEPT !.slices = Append(@, <<w.pos + 1, w.pos + n>>),
                         !.written = written]
    IN  IF ~ok
        THEN [cut EXCEPT !.pc = "failed", !.err = "Io"]
        ELSE write_all_next(
                 [cut EXCEPT !.pos = @ + written,
                             !.shown = IF written = 0 THEN @
                                       ELSE Append(@, <<w.pos + 1,
                                                        w.pos + written>>)])

write_all_turn(w, ok, written) ==
    LET n == slice_len(w.data, w.pos)
        cut == [w EXCEPT !.slices = Append(@, <<w.pos + 1, w.pos + n>>),
                         !.written = written]
    IN  IF ~ok
        THEN [cut EXCEPT !.pc = "failed", !.err = "Io"]
        ELSE IF written = 0
        THEN [cut EXCEPT !.pc = "failed", !.err = "WriteZero"]
        ELSE write_all_next(
                 [cut EXCEPT !.pos = @ + written,
                             !.shown = Append(@, <<w.pos + 1,
                                                   w.pos + written>>)])

\* most console writes of one call that accept a part of their slice
MaxShortWrites == 2

\* the data of the runs: lengths around one and two full slices, with no
\* surrogate pair or one pair anywhere near a slice end
WriteData ==
    {Utf16Data(len, pairs) :
        len \in {0, 1, 2, 3, ChunkUnits - 1, ChunkUnits, ChunkUnits + 1,
                 ChunkUnits + 2, 2 * ChunkUnits, 2 * ChunkUnits + 1},
        pairs \in {{}} \cup {{i} : i \in {1, 2, ChunkUnits - 1, ChunkUnits,
                                         ChunkUnits + 1, 2 * ChunkUnits - 1,
                                         2 * ChunkUnits}}}

\* write_all is called with `data`
WriteAll(data) ==
    /\ wa.pc = "idle"
    /\ \A i \in data.pairs : i + 1 <= data.len
    /\ wa' = write_all_next([NoWrite EXCEPT !.pc = "loop", !.data = data])
    /\ UNCHANGED <<console_vars, key_vars, paint, refresh, thread_vars>>

\* WriteConsoleW is called with the next slice
WriteConsoleW(ok, written) ==
    /\ wa.pc = "loop"
    /\ written <= slice_len(wa.data, wa.pos)
    /\ (ok /\ 0 < written /\ written < slice_len(wa.data, wa.pos))
          => wa.short < MaxShortWrites
    /\ wa' = [write_all_turn(wa, ok, written) EXCEPT
                 !.short = IF ok /\ 0 < written
                                /\ written < slice_len(wa.data, wa.pos)
                           THEN @ + 1 ELSE @]
    /\ UNCHANGED <<console_vars, key_vars, paint, refresh, thread_vars>>

\* what the console may accept of a slice of n units
AcceptedUnits(n) == {0, 1, 2, n - 1, n} \cap (0 .. n)

InitWrite == InitNoSession

NextWrite ==
    \/ \E data \in WriteData : WriteAll(data)
    \/ \E ok \in BOOLEAN :
         \E written \in AcceptedUnits(slice_len(wa.data, wa.pos)) :
             WriteConsoleW(ok, written)

\* the console answers every call
FairWrite ==
    WF_vars(\E ok \in BOOLEAN :
              \E written \in AcceptedUnits(slice_len(wa.data, wa.pos)) :
                  WriteConsoleW(ok, written))

SpecWrite == InitWrite /\ [][NextWrite]_vars /\ FairWrite

\* C21: every slice handed to the console has at most 8192 units, does
\* not end on a high surrogate whose low surrogate follows, and does not
\* start on the low surrogate of a pair.
ChunkSafety ==
    wa.pc # "idle" =>
        \A i \in 1 .. Len(wa.slices) :
            /\ wa.slices[i][2] - wa.slices[i][1] + 1 <= 8192
            /\ ~IsHigh(wa.data, wa.slices[i][2])
            /\ ~IsLow(wa.data, wa.slices[i][1])

\* the units the console accepted are the units 1 .. upto of the data,
\* each once and in order
ShownInOrder(upto) ==
    /\ \A i \in 1 .. Len(wa.shown) :
          /\ wa.shown[i][1] <= wa.shown[i][2]
          /\ wa.shown[i][1] = IF i = 1 THEN 1 ELSE wa.shown[i - 1][2] + 1
    /\ upto = IF wa.shown = <<>> THEN 0 ELSE wa.shown[Len(wa.shown)][2]

\* C22: every turn of the loop of write_all ends the call with an error or
\* cuts at least one unit off the data; a console write that accepts no
\* unit ends the call with WriteZero; the call ends; and when it has
\* returned Ok the console has accepted every unit of the input once and
\* in order.
WriteAllTerminates ==
    /\ [][(wa.pc = "loop" /\ wa' # wa)
            => \/ wa'.pc = "failed"
               \/ wa'.pos > wa.pos
            ]_vars
    /\ []((wa.pc \in {"loop", "done", "failed"} /\ wa.slices # <<>>
             /\ wa.written = 0 /\ wa.err # "Io")
            => (wa.pc = "failed" /\ wa.err = "WriteZero"))
    /\ [](wa.pc = "done" => ShownInOrder(wa.data.len))
    /\ (wa.pc = "loop" ~> wa.pc \in {"done", "failed"})

WriteAllTerminatesWitness ==
    /\ wa.pc = "done"
    /\ wa.data.len = 2 * ChunkUnits + 1
    /\ wa.data.pairs = {ChunkUnits}
    /\ Len(wa.shown) = 4
    /\ wa.short = 2

(***************************************************************************)
(* wrap_at_eol (lines 389-409) and calculate_position (lines 520-540).  A  *)
(* string is the sequence of its grapheme clusters; a cluster is its text  *)
(* and its width by unicode_width (UnicodeWidthStr::width).                *)
(***************************************************************************)
Cluster(ch, w) == [ch |-> ch, w |-> w]

NewLine == Cluster("\n", 0)

\* the clusters of the runs: a newline, a narrow and a wide glyph, and the
\* characters of a VT colour sequence
Clusters ==
    {NewLine, Cluster("a", 1), Cluster("wide", 2), Cluster("ESC", 0),
     Cluster("[", 1), Cluster("m", 1)}

\* super::width(s, &mut esc_seq), line 395: zero inside a VT escape
\* sequence, the unicode width outside
width(c, esc_seq) ==
    IF esc_seq = 1
    THEN [cw |-> 0, esc_seq |-> IF c.ch = "[" THEN 2 ELSE 0]
    ELSE IF esc_seq = 2
    THEN [cw |-> 0, esc_seq |-> IF c.ch \in {";", "0", "1"} THEN 2 ELSE 0]
    ELSE IF c.ch = "ESC"
    THEN [cw |-> 0, esc_seq |-> 1]
    ELSE IF c.ch = "\n"
    THEN [cw |-> 0, esc_seq |-> 0]
    ELSE [cw |-> c.w, esc_seq |-> 0]

\* what wrap_at_eol pushes: a cluster of the string with the width counted
\* for it, or a newline of its own (lines 398, 405)
Pushed(c, cw) == [ch |-> c.ch, cw |-> cw, inserted |-> FALSE]
Inserted == [ch |-> "\n", cw |-> 0, inserted |-> TRUE]

\* line 397
wrap_overflows_at_edge(cols, col) == col >= cols

wrap_overflows(cols, col) == col > cols

\* lines 391-403: the loop over the clusters left
RECURSIVE wrap_loop(_, _, _, _, _)
wrap_loop(cols, s, col, esc_seq, buffer) ==
    IF s = <<>>
    THEN [buffer |-> buffer, col |-> col]
    ELSE LET c == Head(s)
             m == width(c, esc_seq)
         IN  IF c.ch = "\n"
             THEN wrap_loop(cols, Tail(s), 0, esc_seq,
                            Append(buffer, Pushed(c, 0)))
             ELSE IF wrap_overflows(cols, col + m.cw)
             THEN wrap_loop(cols, Tail(s), m.cw, m.esc_seq,
                            buffer \o <<Inserted, Pushed(c, m.cw)>>)
             ELSE wrap_loop(cols, Tail(s), col + m.cw, m.esc_seq,
                            Append(buffer, Pushed(c, m.cw)))

\* lines 389-409: the text appended to self.buffer and the column returned
wrap_at_eol(cols, s, col) ==
    LET r == wrap_loop(cols, s, col, 0, <<>>)
    IN  IF r.col = cols
        THEN [buffer |-> Append(r.buffer, Inserted), col |-> 0]
        ELSE r

\* lines 522-534
RECURSIVE position_loop(_, _, _)
position_loop(cols, s, pos) ==
    IF s = <<>>
    THEN pos
    ELSE LET c == Head(s)
         IN  IF c.ch = "\n"
             THEN position_loop(cols, Tail(s),
                                [row |-> pos.row + 1, col |-> 0])
             ELSE IF pos.col + c.w > cols
             THEN position_loop(cols, Tail(s),
                                [row |-> pos.row + 1, col |-> c.w])
             ELSE position_loop(cols, Tail(s),
                                [row |-> pos.row, col |-> pos.col + c.w])

\* lines 520-540
calculate_position_no_last_row(cols, s, orig) == position_loop(cols, s, orig)

calculate_position(cols, s, orig) ==
    LET pos == position_loop(cols, s, orig)
    IN  IF pos.col = cols
        THEN [row |-> pos.row + 1, col |-> 0]
        ELSE pos

\* most clusters of a string
MaxClusters == 4

\* the column counts of the runs
Columns == 1 .. 3

RECURSIVE Strings(_)
Strings(n) ==
    IF n = 0 THEN {<<>>}
    ELSE LET shorter == Strings(n - 1)
         IN  shorter \cup {Append(t, c) : t \in shorter, c \in Clusters}

\* a renderer that knows `cols` columns is given `s` to lay out from
\* (row, col)
Layout(cols, s, row, col) ==
    /\ paint.pc = "idle"
    /\ paint' = [NoPaint EXCEPT !.pc = "input", !.s = s, !.cols = cols,
                                  !.col = col, !.row = row]
    /\ UNCHANGED <<console_vars, key_vars, wa, refresh, thread_vars>>

WrapAtEol ==
    /\ paint.pc \in {"input", "positioned"}
    /\ LET r == wrap_at_eol(paint.cols, paint.s, paint.col)
       IN  paint' = [paint EXCEPT
                        !.pc = IF @ = "input" THEN "wrapped" ELSE "both",
                        !.buffer = r.buffer, !.new_col = r.col]
    /\ UNCHANGED <<console_vars, key_vars, wa, refresh, thread_vars>>

CalculatePosition ==
    /\ paint.pc \in {"input", "wrapped"}
    /\ paint' = [paint EXCEPT
                    !.pc = IF @ = "input" THEN "positioned" ELSE "both",
                    !.pos = calculate_position(paint.cols, paint.s,
                                [row |-> paint.row, col |-> paint.col])]
    /\ UNCHANGED <<console_vars, key_vars, wa, refresh, thread_vars>>

InitPaint == InitNoSession

NextPaint ==
    \/ /\ paint.pc = "idle"
       /\ \E cols \in Columns, s \in Strings(MaxClusters), row \in {0, 1} :
            \E col \in 0 .. cols : Layout(cols, s, row, col)
    \/ WrapAtEol
    \/ CalculatePosition

SpecPaint == InitPaint /\ [][NextPaint]_vars

\* the lines of a buffer from column `acc`: for each the column reached
\* and what ended it; with `literal` false only inserted newlines end a
\* line
RECURSIVE BufferLines(_, _, _)
BufferLines(buffer, acc, literal) ==
    IF buffer = <<>>
    THEN << [sum |-> acc, end |-> "end"] >>
    ELSE IF Head(buffer).ch = "\n" /\ Head(buffer).inserted
    THEN << [sum |-> acc, end |-> "inserted"] >>
            \o BufferLines(Tail(buffer), 0, literal)
    ELSE IF Head(buffer).ch = "\n" /\ literal
    THEN << [sum |-> acc, end |-> "literal"] >>
            \o BufferLines(Tail(buffer), 0, literal)
    ELSE BufferLines(Tail(buffer), acc + Head(buffer).cw, literal)

RECURSIVE MaxClusterWidth(_)
MaxClusterWidth(buffer) ==
    IF buffer = <<>> THEN 0
    ELSE LET rest == MaxClusterWidth(Tail(buffer))
         IN  IF Head(buffer).cw > rest THEN Head(buffer).cw ELSE rest

Wrapped == paint.pc \in {"wrapped", "both"}

\* C23 as stated: in the text wrap_at_eol appended, the widths of the
\* clusters between consecutive inserted newlines sum to at most W, and
\* before each inserted newline to more than W less the widest cluster.
WrapSegmentBounds ==
    Wrapped =>
        LET segs == BufferLines(paint.buffer, 0, FALSE)
        IN  \A i \in 1 .. Len(segs) :
                /\ segs[i].sum <= paint.cols
                /\ segs[i].end = "inserted" =>
                      segs[i].sum > paint.cols - MaxClusterWidth(paint.buffer)

\* C23: when no cluster is wider than W and the start column is below W,
\* every line of the text wrap_at_eol appended (lines end at inserted and
\* at literal newlines; the first starts at the start column) reaches a
\* column of at most W, and every line ended by an inserted newline
\* reaches a column above W less the widest cluster.
WrapLineBounds ==
    (Wrapped /\ MaxClusterWidth(paint.buffer) <= paint.cols
             /\ paint.col < paint.cols) =>
        LET lines == BufferLines(paint.buffer, paint.col, TRUE)
        IN  \A i \in 1 .. Len(lines) :
                /\ lines[i].sum <= paint.cols
                /\ lines[i].end = "inserted" =>
                      lines[i].sum > paint.cols - MaxClusterWidth(paint.buffer)

WrapLineBoundsWitness ==
    /\ Wrapped
    /\ paint.cols = 3 /\ paint.col = 2
    /\ paint.s = <<Cluster("a", 1), NewLine, Cluster("wide", 2),
                   Cluster("wide", 2)>>
    /\ Len(paint.buffer) = 5
    /\ paint.buffer[4] = Inserted

NewLines(buffer) ==
    Cardinality({i \in 1 .. Len(buffer) : buffer[i].ch = "\n"})

NoEscape(str) == \A i \in 1 .. Len(str) : str[i].ch # "ESC"

\* C24: for a string without VT escape sequences, wrap_at_eol returns the
\* column of the position calculate_position returns for the same string
\* and start, and the buffer holds as many newlines as calculate_position
\* advances rows.
SameWrappingRules ==
    (paint.pc = "both" /\ NoEscape(paint.s)) =>
        /\ paint.new_col = paint.pos.col
        /\ NewLines(paint.buffer) = paint.pos.row - paint.row

SameWrappingRulesWitness ==
    /\ paint.pc = "both"
    /\ paint.cols = 3 /\ paint.col = 1 /\ paint.row = 1
    /\ paint.s = <<Cluster("wide", 2), Cluster("wide", 2), Cluster("a", 1)>>
    /\ paint.pos = [row |-> 3, col |-> 0]
    /\ paint.new_col = 0

(***************************************************************************)
(* refresh_line (lines 459-513) and clear_rows (lines 558-561) as the      *)
(* console calls they make.  A run is the calls made so far, each with its *)
(* arguments and whether it succeeded, the result ("run" while the call is *)
(* going on) and the visibility of the console cursor.  The text of the    *)
(* paint buffer is laid out by wrap_at_eol above and written by write_all. *)
(***************************************************************************)
\* i16: the value an operation wraps to, and a cast to i16
InI16(n) == -32768 <= n /\ n <= 32767
WrapI16(n) == ((n + 32768) % 65536) - 32768

\* `as DWORD` of an i16 (sign-extended) and the DWORD of a natural number,
\* as the two 16-bit halves
i16_as_dword(v) ==
    IF v >= 0 THEN [hi |-> 0, lo |-> v] ELSE [hi |-> 65535, lo |-> 65536 + v]
Dword(n) == [hi |-> n \div 65536, lo |-> n % 65536]

\* a console call at `site` with `arg`: it fails when the host fails it
\* (check, lines 49-55)
console_call(run, site, arg, faults) ==
    IF run.res # "run"
    THEN run
    ELSE [run EXCEPT !.calls = Append(@, [site |-> site, arg |-> arg,
                                          ok |-> site \notin faults]),
                     !.res = IF site \in faults THEN "Err" ELSE "run"]

\* an i16 operation whose exact value is n: with overflow checks the run
\* panics when n is out of range, without them the value wraps
i16_checked(run, n, overflow_checks) ==
    IF run.res = "run" /\ ~InI16(n) /\ overflow_checks
    THEN [run EXCEPT !.res = "panic"]
    ELSE run

\* set_cursor_visible, lines 427-437; `at` is "hide" or "show"
set_cursor_visible(run, at, visible, faults) ==
    LET got == console_call(run, <<at, "GetConsoleCursorInfo">>, <<>>, faults)
        set == console_call(got, <<at, "SetConsoleCursorInfo">>, visible,
                            faults)
    IN  IF got.res # "run" \/ got.visible = visible
        THEN got
        ELSE IF set.res = "run"
        THEN [set EXCEPT !.visible = visible]
        ELSE set

\* set_console_cursor_position, lines 363-371
set_console_cursor_position(run, at, pos, size, faults) ==
    LET low == IF size.Y - 1 < pos.Y THEN size.Y - 1 ELSE pos.Y
        y == IF low < 0 THEN 0 ELSE low
    IN  console_call(run, <<at, "SetConsoleCursorPosition">>,
                     [X |-> pos.X, Y |-> y], faults)

\* clear, lines 373-381
clear(run, length, pos, faults) ==
    console_call(
        console_call(run, <<"clear", "FillConsoleOutputCharacterA">>,
                     [length |-> length, pos |-> pos], faults),
        <<"clear", "FillConsoleOutputAttribute">>,
        [length |-> length, pos |-> pos], faults)

\* clear_old_rows, lines 412-424
clear_old_rows(run, info, layout, faults, overflow_checks) ==
    LET current_row == WrapI16(layout.cursor.row)
        y == info.dwCursorPosition.Y - current_row
        sub == i16_checked(run, y, overflow_checks)
        placed == set_console_cursor_position(
                      sub, "clear", [X |-> 0, Y |-> WrapI16(y)], info.dwSize,
                      faults)
        coord == placed.calls[Len(placed.calls)].arg
        rows == WrapI16(layout.end.row) + 1
        added == i16_checked(placed, rows, overflow_checks)
        cells == info.dwSize.X * WrapI16(rows)
        multiplied == i16_checked(added, cells, overflow_checks)
    IN  IF multiplied.res # "run"
        THEN multiplied
        ELSE clear(multiplied, i16_as_dword(WrapI16(cells)), coord, faults)

\* the scope guard of lines 497-499 at the end of the call, whatever the
\* result: set_cursor_visible(handle, TRUE) with its result dropped
refresh_exit_on_success(run, faults) ==
    IF ~run.guarded \/ run.res # "run"
    THEN run
    ELSE [set_cursor_visible(run, "show", TRUE, faults) EXCEPT !.res = "run"]

refresh_exit(run, faults) ==
    IF ~run.guarded
    THEN run
    ELSE [set_cursor_visible([run EXCEPT !.res = "run"], "show", TRUE,
                             faults)
             EXCEPT !.res = run.res]

\* the result of a call that came to its end, line 512
finished(run) == [run EXCEPT !.res = IF @ = "run" THEN "Ok" ELSE @]

\* refresh_line, lines 494-512
refresh_line(visible, info, old_layout, new_layout, faults, overflow_checks) ==
    LET start == [NoRefresh EXCEPT !.op = "refresh_line", !.res = "run",
                                  !.visible = visible]
        info1 == console_call(start, <<"first", "GetConsoleScreenBufferInfo">>,
                              <<>>, faults)
        hidden == set_cursor_visible(info1, "hide", FALSE, faults)
        guard == [hidden EXCEPT !.guarded = (hidden.res = "run")]
        cleared == clear_old_rows(guard, info, old_layout, faults,
                                  overflow_checks)
        written == console_call(cleared, <<"write_to_console", "write_all">>,
                                <<>>, faults)
        info2 == console_call(written,
                              <<"second", "GetConsoleScreenBufferInfo">>,
                              <<>>, faults)
        up == WrapI16(new_layout.end.row - new_layout.cursor.row)
        y == info.dwCursorPosition.Y - up
        sub == i16_checked(info2, y, overflow_checks)
        placed == set_console_cursor_position(
                      sub, "cursor",
                      [X |-> WrapI16(new_layout.cursor.col),
                       Y |-> WrapI16(y)],
                      info.dwSize, faults)
    IN  finished(refresh_exit(placed, faults))

\* clear_rows, lines 558-561
clear_rows(visible, info, layout, faults, overflow_checks) ==
    LET start == [NoRefresh EXCEPT !.op = "clear_rows", !.res = "run",
                                  !.visible = visible]
        info1 == console_call(start, <<"first", "GetConsoleScreenBufferInfo">>,
                              <<>>, faults)
    IN  finished(clear_old_rows(info1, info, layout, faults,
                                overflow_checks))

\* the console calls of a refresh that the host may fail
RefreshSites ==
    {<<"first", "GetConsoleScreenBufferInfo">>,
     <<"hide", "GetConsoleCursorInfo">>, <<"hide", "SetConsoleCursorInfo">>,
     <<"clear", "SetConsoleCursorPosition">>,
     <<"clear", "FillConsoleOutputCharacterA">>,
     <<"clear", "FillConsoleOutputAttribute">>,
     <<"write_to_console", "write_all">>,
     <<"second", "GetConsoleScreenBufferInfo">>,
     <<"cursor", "SetConsoleCursorPosition">>}
ShowSites ==
    {<<"show", "GetConsoleCursorInfo">>, <<"show", "SetConsoleCursorInfo">>}

\* at most one call of the refresh fails, and the show of the scope guard
\* may fail besides
RefreshFaults ==
    {main \cup show : main \in {{}} \cup {{site} : site \in RefreshSites},
                      show \in {{}} \cup {{site} : site \in ShowSites}}

\* the screen buffers and layouts of the runs: 80 and 200 columns, the
\* cursor on rows 0 and 5 of 300, and up to 165 painted rows
ScreenInfos ==
    {[dwSize |-> [X |-> x, Y |-> 300],
      dwCursorPosition |-> [X |-> 0, Y |-> y]] : x \in {80, 200}, y \in {0, 5}}
Layouts ==
    {[cursor |-> [row |-> r, col |-> c], end |-> [row |-> e, col |-> 0]] :
        r \in {0, 1, 7}, c \in {0, 3}, e \in {0, 1, 7, 163, 164}}

\* one call on a renderer whose console shows or hides the cursor
RefreshLine(visible, info, old_layout, new_layout, faults, overflow_checks) ==
    /\ refresh.op = "none"
    /\ old_layout.cursor.row <= old_layout.end.row
    /\ new_layout.cursor.row <= new_layout.end.row
    /\ refresh' = [refresh_line(visible, info, old_layout,
                                new_layout, faults, overflow_checks)
                      EXCEPT !.input = <<info, old_layout>>]
    /\ UNCHANGED <<console_vars, key_vars, wa, paint, thread_vars>>

ClearRows(visible, info, layout, faults, overflow_checks) ==
    /\ refresh.op = "none"
    /\ layout.cursor.row <= layout.end.row
    /\ refresh' = [clear_rows(visible, info, layout, faults,
                              overflow_checks)
                      EXCEPT !.input = <<info, layout>>]
    /\ UNCHANGED <<console_vars, key_vars, wa, paint, thread_vars>>

InitRefresh == InitNoSession

NextRefresh ==
    \/ /\ refresh.op = "none"
       /\ \E visible \in BOOLEAN, info \in ScreenInfos, old_layout \in Layouts,
             new_layout \in {l \in Layouts : l.end.row <= 1},
             faults \in RefreshFaults, overflow_checks \in BOOLEAN :
            RefreshLine(visible, info, old_layout, new_layout, faults,
                        overflow_checks)
    \/ /\ refresh.op = "none"
       /\ \E visible \in BOOLEAN, info \in ScreenInfos, layout \in Layouts,
             faults \in RefreshFaults, overflow_checks \in BOOLEAN :
            ClearRows(visible, info, layout, faults, overflow_checks)

SpecRefresh == InitRefresh /\ [][NextRefresh]_vars

\* the hide of line 495 was called and succeeded
CursorHidden ==
    /\ \E i \in 1 .. Len(refresh.calls) : refresh.calls[i].site[1] = "hide"
    /\ \A i \in 1 .. Len(refresh.calls) :
          refresh.calls[i].site[1] = "hide" => refresh.calls[i].ok

\* C25: when refresh_line has returned, with Ok or with an error, and its
\* hide of the cursor had succeeded, the last console calls of the run are
\* those of a show-cursor action, made after every other call; the cursor
\* is visible again when they succeeded.
ShowAfterHide ==
    (refresh.op = "refresh_line" /\ refresh.res \in {"Ok", "Err"}
        /\ CursorHidden) =>
        /\ \E i \in 1 .. Len(refresh.calls) :
              /\ refresh.calls[i].site = <<"show", "GetConsoleCursorInfo">>
              /\ \A j \in 1 .. Len(refresh.calls) :
                    (refresh.calls[j].site[1] = "show") <=> (j >= i)
        /\ (\A i \in 1 .. Len(refresh.calls) : refresh.calls[i].ok)
              => refresh.visible

ShowAfterHideWitness ==
    /\ refresh.op = "refresh_line"
    /\ refresh.res = "Err"
    /\ Len(refresh.calls) = 11
    /\ refresh.calls[9]
         = [site |-> <<"cursor", "SetConsoleCursorPosition">>,
            arg |-> [X |-> 3, Y |-> 4], ok |-> FALSE]
    /\ refresh.calls[11]
         = [site |-> <<"show", "SetConsoleCursorInfo">>, arg |-> TRUE,
            ok |-> TRUE]
    /\ refresh.visible

\* C29: once clear_old_rows has placed the cursor, the run does not abort
\* and the fill that follows starts at column 0 of the clamped start row
\* and covers size.X * (layout.end.row + 1) cells.
ClearFillsProduct ==
    \A i \in 1 .. Len(refresh.calls) :
        (refresh.calls[i].site = <<"clear", "SetConsoleCursorPosition">>
            /\ refresh.calls[i].ok) =>
            LET info == refresh.input[1]
                layout == refresh.input[2]
                y == info.dwCursorPosition.Y - layout.cursor.row
            IN  /\ refresh.res # "panic"
                /\ Len(refresh.calls) > i
                /\ refresh.calls[i + 1].site
                     = <<"clear", "FillConsoleOutputCharacterA">>
                /\ refresh.calls[i + 1].arg
                     = [length |-> Dword(info.dwSize.X
                                            * (layout.end.row + 1)),
                        pos |-> [X |-> 0, Y |-> IF y < 0 THEN 0 ELSE y]]

(***************************************************************************)
(* Properties of the Console's pipe: which pipe the Console holds, and     *)
(* which the printers and readers made from it hold.                       *)
(***************************************************************************)
\* C26: in every state reached by create_external_printer, enable_raw_mode,
\* create_reader and printer drops, the Console holds a pipe (pipe_reader)
\* if and only if it holds a sender (pipe_writer), and when it holds both
\* the sender is the sending half of the channel whose receiver is in that
\* pipe.
PipeAndSenderTogether ==
    /\ term.pipe_reader # 0 <=> term.pipe_writer # 0
    /\ term.pipe_writer # 0 => term.pipe_writer = term.pipe_reader

\* the Console holds the second pipe it made: enable_raw_mode let the first
\* one go when its printer was dropped, create_external_printer built
\* another
PipeAndSenderTogetherWitness ==
    /\ term.alive
    /\ hist.enables > 0
    /\ npipes = 2
    /\ term.pipe_reader = 2 /\ term.pipe_writer = 2


\* the ExternalPrinters that exist
LivePrinters == {p \in Printers : printers[p].alive}

\* a step in which the Console lets go of the pipe it held (lines 824-825)
DropsPipe == term.pipe_reader # 0 /\ term'.alive /\ term'.pipe_reader = 0

\* a step of create_reader
MakesReader == ~reader.alive /\ reader'.alive

\* C30: the Console lets go of its pipe and sender only when no
\* ExternalPrinter exists; while the Console exists, the sender and the
\* event handle of every ExternalPrinter that exists belong to the pipe the
\* Console holds, and that pipe is the one create_reader hands to a reader,
\* so no printer is attached to a pipe a new reader cannot receive from.
LivePrintersShareHeldPipe ==
    /\ [](term.alive =>
            \A p \in LivePrinters :
                /\ term.pipe_reader # 0
                /\ printers[p].sender = term.pipe_writer
                /\ printers[p].event = term.pipe_reader)
    /\ [][DropsPipe => LivePrinters = {}]_vars
    /\ [][MakesReader => reader'.pipe_reader = term.pipe_reader]_vars

\* enable_raw_mode ran with no printer left and again with a printer
\* outstanding: the second printer, the Console and a reader made after it
\* share the second pipe
LivePrintersShareHeldPipeWitness ==
    /\ term.alive
    /\ hist.enables = 2
    /\ last.op = "enable"
    /\ npipes = 2
    /\ ~printers[1].alive
    /\ printers[2].alive /\ printers[2].sender = 2
    /\ reader.alive /\ reader.pipe_reader = 2


(***************************************************************************)
(* Bracketed paste over the raw-mode lifecycle.                            *)
(***************************************************************************)
\* the last call wrote the bracketed-paste-on sequence
PasteOnWritten == "write_all(BRACKETED_PASTE_ON)" \in Range(last.calls)

\* the last call put ENABLE_VIRTUAL_TERMINAL_INPUT into the input mode
InputVtSet ==
    "VIRTUAL_TERMINAL_INPUT" \in conin_mode \ last.before.conin_mode

\* C28: enable_raw_mode writes the bracketed-paste-on sequence, and adds
\* VIRTUAL_TERMINAL_INPUT to the raw input mode, only when the console
\* takes VT sequences (ansi_colors_supported) and the Console was built
\* with enable_bracketed_paste; a release that succeeds on a token with a
\* captured output mode writes bracketed-paste-off and restores the output
\* mode after it, and after a release that succeeded the terminal does not
\* have bracketed paste on.
BracketedPastePairing ==
    /\ last.op = "enable" =>
          /\ PasteOnWritten =>
                term.ansi_colors_supported /\ term.enable_bracketed_paste
          /\ InputVtSet =>
                /\ term.ansi_colors_supported /\ term.enable_bracketed_paste
                /\ PasteOnWritten
    /\ (last.op = "disable" /\ last.res = "ok") =>
          /\ last.token.original_conout_mode.some =>
                SubSeq(last.calls, 2, 3) =
                    <<"write_all(BRACKETED_PASTE_OFF)",
                      "SetConsoleMode(conout)">>
          /\ ~con_paste

\* a release that succeeded on a token whose enable_raw_mode had switched
\* bracketed paste on and set VIRTUAL_TERMINAL_INPUT
BracketedPastePairingWitness ==
    /\ last.op = "disable" /\ last.res = "ok"
    /\ term.enable_bracketed_paste /\ term.ansi_colors_supported
    /\ last.token.original_conout_mode.some
    /\ "VIRTUAL_TERMINAL_INPUT" \notin last.at_enable.conin_mode
    /\ "VIRTUAL_TERMINAL_INPUT" \in last.before.conin_mode
    /\ "VIRTUAL_TERMINAL_PROCESSING" \in last.before.conout_mode
    /\ ~con_paste


(***************************************************************************)
(* Threads.  Console and ExternalPrinter are declared Send and Sync (lines *)
(* 899-900, 916-917): a thread may hold a shared reference to the Console  *)
(* and call its `&self` methods, and a printer, a token or a reader may be *)
(* used on a thread of its own.  An operation is the sequence of memory    *)
(* accesses its code makes, one step each.  A location is a field of the   *)
(* Console, or a cell that several objects point to: the AtomicBool and    *)
(* the reference count of raw_mode, the reference count of the AsyncPipe,  *)
(* the channel, the event and the console host.                            *)
(***************************************************************************)
\* an access: "read" and "write" are plain, "load", "store" and "rmw" are
\* atomic, "call" enters a lock-protected or kernel object
Acc(loc, kind) == [loc |-> loc, kind |-> kind]

\* lines 100, 821, 922: the flag is an AtomicBool, read and written with
\* Ordering::SeqCst
seq_cst_plain(kind) == kind

seq_cst(kind) == IF kind = "read" THEN "load" ELSE "store"

\* Console::colors_enabled, lines 664-671
colors_enabled(self) ==
    <<Acc("color_mode", "read")>> \o
    (IF self.color_mode = "Enabled"
     THEN <<Acc("conout_isatty", "read")>> \o
          (IF self.conout_isatty
           THEN <<Acc("ansi_colors_supported", "read")>> ELSE <<>>)
     ELSE <<>>)

\* Arc::clone of self.pipe_reader, when there is one
clone_pipe(some) ==
    <<Acc("pipe_reader", "read")>> \o
    (IF some THEN <<Acc("pipe.strong", "rmw")>> ELSE <<>>)

\* the methods of Console that take `&self`; `some` tells whether the
\* Console holds a pipe
shared_ops(self, some) ==
    [is_input_tty  |-> <<Acc("conin_isatty", "read")>>,
     is_output_tty |-> <<Acc("conout_isatty", "read")>>,
     colors_enabled |-> colors_enabled(self),
     \* lines 841-847
     create_reader |->
        <<Acc("conin", "read")>> \o clone_pipe(some) \o
        <<Acc("enable_bracketed_paste", "read")>>,
     \* lines 849-851, 344-355
     create_writer |->
        <<Acc("conout", "read")>> \o colors_enabled(self) \o
        <<Acc("bell_style", "read"), Acc("console", "call")>>,
     \* lines 853-855
     writeln |-> <<Acc("conout", "read"), Acc("console", "call")>>,
     \* #[derive(Clone)], line 645
     clone |->
        <<Acc("conin_isatty", "read"), Acc("conin", "read"),
          Acc("conout_isatty", "read"), Acc("conout", "read"),
          Acc("close_on_drop", "read"), Acc("color_mode", "read"),
          Acc("ansi_colors_supported", "read"), Acc("bell_style", "read"),
          Acc("enable_bracketed_paste", "read"),
          Acc("raw_mode", "read"), Acc("raw_mode.strong", "rmw")>> \o
        clone_pipe(some) \o
        <<Acc("pipe_writer", "read")>> \o
        (IF some THEN <<Acc("pipe.channel", "call")>> ELSE <<>>)]

\* the methods of Console that take `&mut self`
exclusive_ops(self, some) ==
    [\* lines 762-839, a run in which no call fails
     enable_raw_mode |->
        <<Acc("conin_isatty", "read"), Acc("conin", "read"),
          Acc("console", "call"), Acc("conout_isatty", "read")>> \o
        (IF self.conout_isatty
         THEN <<Acc("conout", "read"), Acc("console", "call"),
                Acc("ansi_colors_supported", "write"),
                Acc("color_mode", "read"),
                Acc("ansi_colors_supported", "read"),
                Acc("enable_bracketed_paste", "read")>>
         ELSE <<>>) \o
        <<Acc("raw_mode", "read"), Acc("raw_mode.flag", seq_cst("write")),
          Acc("raw_mode.strong", "load")>> \o
        (IF ~some
         THEN <<Acc("pipe_writer", "write"), Acc("pipe_reader", "write")>>
         ELSE <<>>) \o
        <<Acc("conin", "read"), Acc("console", "call"),
          Acc("raw_mode", "read"), Acc("raw_mode.strong", "rmw")>>,
     \* lines 857-887
     create_external_printer |->
        <<Acc("pipe_writer", "read")>> \o
        (IF some
         THEN <<Acc("pipe_reader", "read"), Acc("pipe.channel", "call"),
                Acc("raw_mode", "read"), Acc("raw_mode.strong", "rmw"),
                Acc("conout", "read")>>
         ELSE <<Acc("conin_isatty", "read"), Acc("conout_isatty", "read"),
                Acc("pipe_reader", "write"), Acc("pipe_writer", "write"),
                Acc("raw_mode", "read"), Acc("raw_mode.strong", "rmw"),
                Acc("conout", "read")>>)]

\* the calls on an object that belongs to the calling thread: an
\* ExternalPrinter (print, lines 920-931, and its drop), a ConsoleMode
\* (disable_raw_mode, lines 93-102) and a ConsoleRawReader (select, lines
\* 126-157, woken by the pipe).  `raw` is the value print loads.
owned_ops(raw) ==
    [print |->
        <<Acc("raw_mode.flag", seq_cst("read"))>> \o
        (IF ~raw THEN <<Acc("console", "call")>>
         ELSE <<Acc("pipe.channel", "call"), Acc("pipe.event", "call")>>),
     drop_printer |->
        <<Acc("pipe.channel", "call"), Acc("raw_mode.strong", "rmw")>>,
     disable_raw_mode |->
        <<Acc("console", "call"), Acc("console", "call"),
          Acc("console", "call"), Acc("raw_mode.flag", seq_cst("write"))>>,
     select |->
        <<Acc("pipe.event", "call"), Acc("pipe.event", "call"),
          Acc("pipe.channel", "call")>>]

SharedOps == DOMAIN shared_ops(term, TRUE)
ExclusiveOps == DOMAIN exclusive_ops(term, TRUE)
OwnedOps == DOMAIN owned_ops(TRUE)

\* some thread is inside a call through `&Console` / `&mut Console`
SharedBorrow == \E t \in Threads : threads[t].op \in SharedOps
ExclusiveBorrow == \E t \in Threads : threads[t].op \in ExclusiveOps

\* a thread enters a `&self` method of the Console: no `&mut` borrow is
\* live
BeginShared(t, op, some) ==
    /\ threads[t] = NoThread
    /\ ~ExclusiveBorrow
    /\ threads' = [threads EXCEPT ![t] =
                      [op |-> op, todo |-> shared_ops(term, some)[op]]]
    /\ UNCHANGED <<console_vars, key_vars, render_vars>>

\* a thread enters a `&mut self` method of the Console: no other borrow is
\* live
BeginExclusive(t, op, some) ==
    /\ threads[t] = NoThread
    /\ ~ExclusiveBorrow /\ ~SharedBorrow
    /\ threads' = [threads EXCEPT ![t] =
                      [op |-> op, todo |-> exclusive_ops(term, some)[op]]]
    /\ UNCHANGED <<console_vars, key_vars, render_vars>>

\* a thread calls into a printer, token or reader of its own
BeginOwned(t, op, raw) ==
    /\ threads[t] = NoThread
    /\ threads' = [threads EXCEPT ![t] =
                      [op |-> op, todo |-> owned_ops(raw)[op]]]
    /\ UNCHANGED <<console_vars, key_vars, render_vars>>

\* a thread makes its next access; after the last one the call returns
Access(t) ==
    /\ threads[t].todo # <<>>
    /\ threads' = [threads EXCEPT ![t] =
                      IF Len(@.todo) = 1 THEN NoThread
                      ELSE [@ EXCEPT !.todo = Tail(@)]]
    /\ UNCHANGED <<console_vars, key_vars, render_vars>>

InitThreads ==
    /\ faulty = {}
    /\ conin_mode = CookedInputMode
    /\ conout_mode = {"PROCESSED_OUTPUT", "WRAP_AT_EOL_OUTPUT"}
    \* ColorMode::Enabled is the mode in which colors_enabled reads the most
    \* fields
    /\ \E tty \in BOOLEAN : term = Console(TRUE, tty, "Enabled", TRUE)
    /\ InitObjects

NextThreads ==
    \E t \in Threads :
        \/ \E op \in SharedOps, some \in BOOLEAN : BeginShared(t, op, some)
        \/ \E op \in ExclusiveOps, some \in BOOLEAN :
              BeginExclusive(t, op, some)
        \/ \E op \in OwnedOps, raw \in BOOLEAN : BeginOwned(t, op, raw)
        \/ Access(t)

SpecThreads == InitThreads /\ [][NextThreads]_vars

\* the access thread t makes next
Pending(t) == Head(threads[t].todo)

\* two accesses to one location of which one writes and one is plain
Conflict(a, b) ==
    /\ a.loc = b.loc
    /\ a.kind \in {"write", "store", "rmw"}
          \/ b.kind \in {"write", "store", "rmw"}
    /\ a.kind \in {"read", "write"} \/ b.kind \in {"read", "write"}

\* C27: Console and ExternalPrinter may be shared between and moved to
\* threads: whatever `&self` methods of the Console several threads are in,
\* and whatever printers, tokens and readers other threads use meanwhile,
\* no two threads are about to access one location of the Console's or a
\* printer's state with one access a write and one of them not atomic.
NoDataRace ==
    \A t1, t2 \in Threads :
        (t1 # t2 /\ threads[t1].todo # <<>> /\ threads[t2].todo # <<>>)
            => ~Conflict(Pending(t1), Pending(t2))

\* two threads are in create_reader, both about to read pipe_reader of the
\* shared Console, while a third thread's print loads the flag
NoDataRaceWitness ==
    /\ threads[1].op = "create_reader" /\ threads[2].op = "create_reader"
    /\ Pending(1).loc = "pipe_reader" /\ Pending(2).loc = "pipe_reader"
    /\ threads[3].op = "print"
    /\ Pending(3) = Acc("raw_mode.flag", "load")


(***************************************************************************)
(* The pipe's wakeup against its channel.                                  *)
(***************************************************************************)
\* a print call is at its send on pipe i
SendInProgress(i) ==
    \E p \in Printers : printers[p].pc = "send" /\ printers[p].sender = i

\* C31: in every interleaving of the printers with the reader, a reader
\* that woke on the pipe event (it is at ResetEvent or at recv) finds a
\* message in the channel, so recv returns without waiting; and the event
\* of a pipe is never signalled while its channel is empty and no print
\* call is at its send.
NoSpuriousWakeup ==
    /\ (reader.alive /\ reader.pc \in {"reset", "recv"}) =>
          chan[reader.pipe_reader] # <<>>
    /\ \A i \in 1 .. npipes :
          event[i] => (chan[i] # <<>> \/ SendInProgress(i))

\* the reader woke, has reset the event and is at recv with a message in the
\* channel, while the other printer's call waits at its send for the slot
NoSpuriousWakeupWitness ==
    /\ reader.alive /\ reader.pc = "recv"
    /\ ~event[reader.pipe_reader]
    /\ Len(chan[reader.pipe_reader]) = 1
    /\ SendInProgress(reader.pipe_reader)


(***************************************************************************)
(* The shared raw-mode flag against the live tokens.                       *)
(***************************************************************************)
\* C32: the shared raw-mode flag is true only while a token of a successful
\* enable_raw_mode is unreleased: it is false at the start, after an
\* enable_raw_mode that returned an error and after a token release, so
\* print takes the channel path only while a raw-mode session exists.
RawFlagOnlyInSession == raw_mode => Len(tokens) > 0


(***************************************************************************)
(* ConsoleRenderer::move_cursor_at_leftmost, lines 585-603.  The host      *)
(* rejects a cursor position outside the screen buffer with                *)
(* ERROR_INVALID_PARAMETER; a call the host fails for another reason       *)
(* reports `code`.                                                         *)
(***************************************************************************)
\* the coordinates are within the boundaries of the console screen buffer
in_buffer(pos, size) ==
    /\ 0 <= pos.X /\ pos.X < size.X
    /\ 0 <= pos.Y /\ pos.Y < size.Y

LeftmostSet == <<"leftmost", "SetConsoleCursorPosition">>

move_cursor_at_leftmost(info, faults, code) ==
    LET start == [NoRefresh EXCEPT !.op = "move_cursor_at_leftmost",
                                  !.res = "run"]
        got == console_call(start,
                            <<"leftmost", "GetConsoleScreenBufferInfo">>,
                            <<>>, faults)
        cursor == info.dwCursorPosition
        \* lines 592-593
        target == [X |-> 0, Y |-> cursor.Y + 1]
        \* the position set_console_cursor_position hands to the host
        asked == set_console_cursor_position(got, "leftmost", target,
                                             info.dwSize, {})
        pos == asked.calls[Len(asked.calls)].arg
        rejected == ~in_buffer(pos, info.dwSize)
        res == set_console_cursor_position(
                   got, "leftmost", target, info.dwSize,
                   IF rejected THEN faults \cup {LeftmostSet} ELSE faults)
        invalid == rejected \/ code = "ERROR_INVALID_PARAMETER"
        \* lines 595-600
        lf == console_call([res EXCEPT !.res = "run"],
                           <<"leftmost", "write_all">>, <<10>>, faults)
    IN  IF got.res # "run" THEN got
        ELSE IF cursor.X = 0 THEN finished(got)
        ELSE IF res.res = "Err" /\ invalid THEN finished(lf)
        ELSE finished(res)

\* the console calls of the move that the host may fail, one at most, and
\* the error a failed call reports
LeftmostFaults ==
    {{}} \cup
    {{<<"leftmost", site>>} :
        site \in {"GetConsoleScreenBufferInfo", "SetConsoleCursorPosition",
                  "write_all"}}
ErrorCodes == {"ERROR_INVALID_PARAMETER", "ERROR_INVALID_HANDLE"}

\* screen buffers of 80 columns and 1, 2 or 25 rows with the cursor on any
\* row, at the left edge, next to it or at the right edge
LeftmostInfos ==
    {info \in [dwSize : [X : {80}, Y : {1, 2, 25}],
               dwCursorPosition : [X : {0, 1, 79}, Y : 0 .. 24]] :
        info.dwCursorPosition.Y < info.dwSize.Y}

MoveCursorAtLeftmost(info, faults, code) ==
    /\ refresh.op = "none"
    /\ refresh' = [move_cursor_at_leftmost(info, faults, code)
                      EXCEPT !.input = <<info>>]
    /\ UNCHANGED <<console_vars, key_vars, wa, paint, thread_vars>>

InitLeftmost == InitNoSession

NextLeftmost ==
    /\ refresh.op = "none"
    /\ \E info \in LeftmostInfos, faults \in LeftmostFaults,
          code \in ErrorCodes :
         MoveCursorAtLeftmost(info, faults, code)

SpecLeftmost == InitLeftmost /\ [][NextLeftmost]_vars

\* the call of move_cursor_at_leftmost returned Ok and had found the cursor
\* away from column 0
MovedFromColumn ==
    /\ refresh.op = "move_cursor_at_leftmost" /\ refresh.res = "Ok"
    /\ refresh.input[1].dwCursorPosition.X # 0

\* the cursor positions the call set, in order
PlacedAt ==
    SelectSeq(refresh.calls, LAMBDA c : c.site = LeftmostSet /\ c.ok)

\* the line feeds the call wrote
LineFeeds ==
    SelectSeq(refresh.calls,
              LAMBDA c : c.site = <<"leftmost", "write_all">> /\ c.ok)

\* C33: a call of move_cursor_at_leftmost that finds the cursor at a
\* non-zero column ends with the cursor at column 0 of a row below: it sets
\* the cursor to (0, row + 1), or, with the cursor on the last row of the
\* screen buffer, writes a single LF; it never sets the cursor to column 0
\* of the row it started on.  With the cursor at column 0 it sets no
\* position and writes nothing.
LeftmostMovesBelow ==
    /\ MovedFromColumn =>
          LET cursor == refresh.input[1].dwCursorPosition
              size == refresh.input[1].dwSize
          IN  /\ \/ /\ PlacedAt = <<[site |-> LeftmostSet,
                                     arg |-> [X |-> 0, Y |-> cursor.Y + 1],
                                     ok |-> TRUE]>>
                    /\ LineFeeds = <<>>
                 \/ /\ PlacedAt = <<>>
                    /\ Len(LineFeeds) = 1
              /\ \A i \in 1 .. Len(PlacedAt) : PlacedAt[i].arg.Y # cursor.Y
    /\ (refresh.op = "move_cursor_at_leftmost" /\ refresh.res = "Ok"
          /\ refresh.input[1].dwCursorPosition.X = 0) =>
          Len(refresh.calls) = 1

=============================================================================
